---- MODULE Spec2Model ----
(***************************************************************************)
(* The ptrace based allocation tracer (Tracer/src): the Debugger engine    *)
(* (debugger.h) with its per-thread supervisors, breakpoint table and      *)
(* step-over protocol, and the TraceData record store (trace_data.cpp)     *)
(* with its queue and worker, its symboliser and name tables, the stack    *)
(* unwinder (get_stack_trace), Tracer::add_new_tid (tracer.cpp) and the    *)
(* zstd output buffer (zip_stream.cpp).                                    *)
(*                                                                         *)
(* The tracee is a small machine: a text of one-address instructions, a    *)
(* memory of low bytes per address space, and threads with an instruction  *)
(* pointer and a stack of return addresses.  The kernel's side of a ptrace *)
(* request is part of the action that issues it.                           *)
(*                                                                         *)
(* Kernel behaviour the model relies on:                                   *)
(*  - a ptrace request of a supervisor on its own thread succeeds iff the  *)
(*    thread is traced and in a ptrace-stop;                               *)
(*  - PTRACE_GETSIGINFO on the thread of another supervisor (the test of   *)
(*    debugger.h:214) is refused by Linux, whose tracer is a single task;  *)
(*    ptraceScope = "any" is the kernel the comment of debugger.h:213      *)
(*    supposes, where the request succeeds iff the thread is in a          *)
(*    ptrace-stop.  Both kernels are explored;                             *)
(*  - waitpid(tid) returns the unreaped status of tid to whichever task    *)
(*    of the tracer asks first;                                            *)
(*  - a SIGSTOP sent to a stopped thread stays pending and is reported as  *)
(*    a signal-delivery-stop when the thread next returns to user mode;    *)
(*    the group-stop that follows when the supervisor forwards it is       *)
(*    resumed by the same branch (debugger.h:498) and is not kept as a     *)
(*    separate state.                                                      *)
(***************************************************************************)
EXTENDS Integers, Sequences, FiniteSets, TLC

\* ------------------------------------------------------------------------
\* Bounds
\* ------------------------------------------------------------------------
\* iterations of the malloc/free loop of the tracee's main
MaxCalls == 2

\* records the supervisors hand to TraceData::add
MaxRecords == 2

\* bytes given to the compressed stream, and frames it writes
MaxBytes == 3
MaxFrames == 3

\* ------------------------------------------------------------------------
\* Program constants
\* ------------------------------------------------------------------------
INT3 == 204
target_pid == 1
new_child == 2

Tids == {target_pid, new_child}

\* get_function_callbacks(): the FunctionRegister entries (a two-entry cut of
\* the DEBUG_FUNCTION list: one entry-only, one return-tracked function)
FunctionCallbacks ==
  << [name |-> "free",   invoke |-> TRUE, result |-> FALSE],
     [name |-> "malloc", invoke |-> TRUE, result |-> TRUE] >>

\* get_syscall_callbacks(): the built-in mmap watcher and the tracer's own
\* mmap and clone hooks
SyscallCallbacks ==
  << [syscall |-> "mmap",  builtin |-> TRUE,  invoke |-> TRUE, result |-> TRUE],
     [syscall |-> "mmap",  builtin |-> FALSE, invoke |-> TRUE, result |-> TRUE],
     [syscall |-> "clone", builtin |-> FALSE, invoke |-> TRUE, result |-> TRUE] >>

FnIdx == 1 .. Len(FunctionCallbacks)
SysIdx == 1 .. Len(SyscallCallbacks)

\* ------------------------------------------------------------------------
\* The tracee: text, files and paths
\* ------------------------------------------------------------------------
\* The threaded test: main maps the allocator's shared object, creates the
\* other thread and runs a loop of malloc, work, free; thread_function does
\* malloc, work, free once.  After a fork the child goes on in main's code.
\* Addresses 1..11 are the executable, 12..16 the shared object (malloc at 13,
\* free at 15).
Text ==
  << [op |-> "syscall", nr |-> "mmap"],
     [op |-> "syscall", nr |-> "clone"],
     [op |-> "call", to |-> 13],
     [op |-> "op"],
     [op |-> "call", to |-> 15],
     [op |-> "loop", to |-> 3],
     [op |-> "syscall", nr |-> "exit"],
     [op |-> "call", to |-> 13],
     [op |-> "op"],
     [op |-> "call", to |-> 15],
     [op |-> "syscall", nr |-> "exit"],
     [op |-> "op"],
     [op |-> "op"],
     [op |-> "ret"],
     [op |-> "op"],
     [op |-> "ret"] >>

Addr == 1 .. Len(Text)

\* the first instruction of thread_function
ThreadFunction == 8

\* the first instruction of main's allocate/free loop
WorkStart == CHOOSE a \in Addr : Text[a].op = "call" /\ \A b \in Addr : Text[b].op = "call" => a <= b

\* the tracee's own byte at an address: anything but the trap opcode
OrigByte(a) == a

ExePath == << "/", "t" >>
GoodLibPath == << "/", "l", ".", "s", "o", ".", "6" >>
\* a library below a directory whose name contains ".so"
DirSoLibPath == << "/", "d", ".", "s", "o", "x", "/", "l", ".", "s", "o" >>
LibPaths == { GoodLibPath, DirSoLibPath }

\* a mapped file that starts with the ELF magic and ends inside its header
TruncatedPath == << "/", "b" >>

ExeMapping == [base |-> 1, length |-> 11]
\* the mapping of the truncated file, below the executable
TruncatedMapping == [base |-> 0, length |-> 1]
\* the mapping of the shared object: [base, base + length)
LibMapping == [base |-> 12, length |-> 5]
\* the mapping of a later segment of the shared object (a nonzero file offset)
SegmentMapping == [base |-> 14, length |-> 3]

\* .dynsym of a file as enumerated by parse_elf_file: STT_FUNC entries; an
\* import has st_value 0
Dynsym(path) ==
  IF path = ExePath
  THEN << [name |-> "malloc", st_value |-> 0], [name |-> "free", st_value |-> 0] >>
  ELSE << [name |-> "malloc", st_value |-> 1], [name |-> "free", st_value |-> 3] >>

\* ------------------------------------------------------------------------
\* Helpers
\* ------------------------------------------------------------------------
Put(f, k, v) == [x \in (DOMAIN f) \cup {k} |-> IF x = k THEN v ELSE f[x]]

MinOf(S) == CHOOSE x \in S : \A y \in S : x <= y

RECURSIVE SortedSeq(_)
SortedSeq(S) == IF S = {} THEN << >> ELSE << MinOf(S) >> \o SortedSeq(S \ {MinOf(S)})

\* /proc/<pid>/maps in address order, first mappings (offset 00000000) only
MapsLines(mp) ==
  LET ord == SortedSeq({ e.base : e \in mp })
  IN [i \in 1 .. Len(ord) |-> CHOOSE e \in mp : e.base = ord[i]]

\* std::string::find: index (from 0) of the first occurrence of pat in s, or -1
Find(s, pat) ==
  LET hits == { i \in 0 .. (Len(s) - Len(pat)) :
                  \A j \in 1 .. Len(pat) : s[i + j] = pat[j] }
  IN IF hits = {} THEN -1 ELSE MinOf(hits)

Front(s) == SubSeq(s, 1, Len(s) - 1)

Last(s) == s[Len(s)]

VARIABLES
  \* ---- the tracee and the kernel
  mode,        \* "spawn" or "attach"
  cloneKind,   \* what the clone system call of the text creates: "thread" or "fork";
               \* "none": the target creates nothing and maps its library again;
               \* "segment": it creates nothing and maps one segment of it again
  libPath,     \* the path behind the file descriptor of the text's mmap
  ptraceScope, \* "tracer": requests only from the tracing task; "any": from any task
  tracee,      \* tid -> thread (state, registers, pending wait status)
  mem,         \* address space -> address -> low byte
  maps,        \* /proc/<target_pid>/maps: set of [path, base]
  \* ---- Debugger
  has_loading_libraries, doing_setup, loading_libraries, loaded_libraries,
  functions, breakpoints, breakpoint_min, breakpoint_max,
  breakpoints_mutex,   \* 0 or the tid whose supervisor holds the unique lock
  threads, active_threads,
  pc,          \* tid -> position of the tid's supervisor task
  loc,         \* tid -> locals of the supervisor task
  \* ---- Tracer / StatInfo
  child_tid_list, tid_relations,
  vec_end,     \* tid -> the end of the vector that the push_back running in the
               \* tid's supervisor has read
  stat,        \* the counters of StatInfo
  stat_load,   \* tid -> the counter that the ++ running in the tid's supervisor
               \* has loaded
  \* ---- TraceData
  need_update_dwfl,
  mark_dirty,  \* on_library_loaded has been called and no refresh has started since
  \* ---- observation
  events,      \* tid -> function hook calls dispatched for that thread, in order
  sysEvents,   \* tid -> syscall hook calls dispatched for that thread, in order
  calls,       \* tid -> function index -> executions of the symbol's address
  execs,       \* the same, counted once the address is in the functions table
  sysStops,    \* tid -> syscall hook slot -> syscall-stops the kernel reported
  \* ---- TraceData: queue and worker
  stopped,     \* the stop flag
  queue,       \* the records pushed and not yet popped, oldest first
  processor,   \* position of the worker thread
  output,      \* the records written to the stream, in order
  pushed,      \* number of records pushed so far
  owner,       \* position of the thread that owns the TraceData object
  \* ---- TraceData: records, symboliser and stream
  config,      \* isGetStackTrace and maxStackTraceDepth
  clock,       \* the steady clock since start_time: the number of readings so far
  trace_info,  \* tid -> the TraceInfo local of the add() running for that thread
  records,     \* the TraceInfo pushed as record 1, 2, ...
  dwfl,        \* the modules the symboliser session has reported
  function_cache, \* ip -> FunctionInfo
  func_names,  \* function name -> index
  file_names,  \* file name -> index
  stream,      \* the entries written to the output stream, in order
  \* ---- Zip::Stream::ofstream and its ostreambuf
  rdbuf,       \* "none", "alive" (the ostreambuf exists) or "deleted"
  fs_,         \* the underlying file stream: "none", "open" or "closed"
  sbuf_,       \* what the underlying file holds: frame headers, bytes, epilogues
  inbuf_,      \* the bytes of the put area, pbase() to pptr()
  inhint_,     \* the size of the put area
  strInit_,    \* a compression session has been initialised and not ended
  strm_,       \* the compressor: bytes taken in and not yet emitted, header emitted
  written      \* the bytes given to the stream so far

envVars == << mode, cloneKind, libPath, ptraceScope >>

dbgVars == << tracee, mem, maps,
              has_loading_libraries, doing_setup, loading_libraries, loaded_libraries,
              functions, breakpoints, breakpoint_min, breakpoint_max,
              breakpoints_mutex, threads, active_threads, pc, loc,
              child_tid_list, tid_relations, vec_end, stat, stat_load,
              need_update_dwfl, mark_dirty >>

obsVars == << events, sysEvents, calls, execs, sysStops >>

\* the variables of the TraceData worker
symVars == << config, clock, trace_info, records, dwfl, function_cache, func_names,
              file_names, stream >>

\* the variables of the compressed sink
zipVars == << rdbuf, fs_, sbuf_, inbuf_, inhint_, strInit_, strm_, written >>

wrkVars == << stopped, queue, processor, output, pushed, owner, symVars, zipVars >>

vars == << envVars, dbgVars, obsVars, wrkVars >>

NoThread == [st |-> "none", traced |-> FALSE, rip |-> 0, stk |-> << >>, iter |-> 0,
             ws |-> "none", sig |-> FALSE, kp |-> "user", as |-> 0]

NoLoc == [addr |-> 0, raddr |-> 0, todo |-> << >>, scan |-> << >>, result |-> TRUE]

\* the address of the function a hook names, in the mapped shared object
SymAddr(i) ==
  LET syms == Dynsym(libPath)
      k == CHOOSE j \in 1 .. Len(syms) : syms[j].name = FunctionCallbacks[i].name
  IN LibMapping.base + syms[k].st_value

\* ------------------------------------------------------------------------
\* Initial state: the tracer constructed, the target started or attached
\* ------------------------------------------------------------------------
Envs ==
  { [mode |-> "spawn", libPath |-> GoodLibPath, cloneKind |-> k, ptraceScope |-> s] :
      k \in {"thread", "fork"}, s \in {"tracer", "any"} }
  \cup { [mode |-> "spawn", libPath |-> DirSoLibPath, cloneKind |-> "thread", ptraceScope |-> "tracer"],
         [mode |-> "spawn", libPath |-> GoodLibPath, cloneKind |-> "none", ptraceScope |-> "tracer"],
         [mode |-> "spawn", libPath |-> GoodLibPath, cloneKind |-> "segment", ptraceScope |-> "tracer"],
         [mode |-> "attach", libPath |-> GoodLibPath, cloneKind |-> "thread", ptraceScope |-> "tracer"] }

\* run_target: the forked child stops at its first instruction (PTRACE_TRACEME
\* and exec); attach_target: PTRACE_ATTACH stops the main thread of a process
\* whose threads are already in the allocate/free loop
InitTracee ==
  IF mode = "spawn"
  THEN [t \in Tids |->
          IF t = target_pid
          THEN [NoThread EXCEPT !.st = "stopped", !.traced = TRUE, !.rip = 1,
                                !.ws = "sig", !.as = 1]
          ELSE NoThread]
  ELSE [t \in Tids |->
          IF t = target_pid
          THEN [NoThread EXCEPT !.st = "stopped", !.traced = TRUE, !.rip = WorkStart,
                                !.ws = "sig", !.as = 1]
          ELSE [NoThread EXCEPT !.st = "running", !.rip = ThreadFunction, !.as = 1]]

InitMaps ==
  {[path |-> ExePath, base |-> ExeMapping.base]}
  \cup (IF mode = "attach" THEN {[path |-> libPath, base |-> LibMapping.base]} ELSE {})

\* the mappings the target can start with: its executable (and, at an attach,
\* its library); one target has also mapped the truncated file
InitMapsSet ==
  {InitMaps}
  \cup (IF mode = "spawn" /\ libPath = GoodLibPath /\ cloneKind = "thread"
            /\ ptraceScope = "tracer"
         THEN {InitMaps \cup {[path |-> TruncatedPath, base |-> TruncatedMapping.base]}}
         ELSE {})

Zero(D) == [t \in Tids |-> [i \in D |-> 0]]

\* TraceData::STACK_MAX, the capacity of a record's stack array
STACK_MAX == 100

\* Config as constructed: the stack is collected, to the depth of 100
DefaultConfig == [isGetStackTrace |-> TRUE, maxStackTraceDepth |-> STACK_MAX]

\* a compressor without a frame in progress
NoSession == [held |-> << >>, header |-> FALSE]

\* StatInfo with every counter at zero.  The Tracer is a local of main and
\* StatInfo has no constructor: the counters start with whatever the stack
\* holds (see InitStat); the engine and the worker never read them.
ZeroStat == [op_invoke_count |-> [i \in FnIdx |-> 0],
             op_result_count |-> [i \in FnIdx |-> 0],
             invoke_count |-> 0, result_count |-> 0, total_count |-> 0]

\* no ++ of a counter is in progress
NoLoad == [kind |-> "none", op |-> 0, val |-> 0]

\* no add() is running for the thread
NoTraceInfo == [tag |-> 0, tid |-> 0, timestamp |-> 0, stack |-> << >>]

InitOther ==
  /\ \E e \in Envs :
       /\ mode = e.mode
       /\ libPath = e.libPath
       /\ cloneKind = e.cloneKind
       /\ ptraceScope = e.ptraceScope
  /\ mem = [s \in {1, 2} |-> [a \in Addr |-> OrigByte(a)]]
  /\ maps \in InitMapsSet
  /\ has_loading_libraries = FALSE
  /\ doing_setup = FALSE
  /\ loading_libraries = {}
  /\ loaded_libraries = {}
  /\ functions = << >>
  /\ breakpoints = << >>
  /\ breakpoint_min = 0
  /\ breakpoint_max = 0
  /\ breakpoints_mutex = 0
  /\ loc = [t \in Tids |-> NoLoc]
  /\ need_update_dwfl = FALSE
  /\ mark_dirty = FALSE
  /\ events = [t \in Tids |-> << >>]
  /\ sysEvents = [t \in Tids |-> << >>]
  /\ calls = Zero(FnIdx)
  /\ execs = Zero(FnIdx)
  /\ sysStops = Zero(SysIdx)
  /\ stopped = FALSE
  /\ queue = << >>
  /\ processor = "none"
  /\ output = << >>
  /\ pushed = 0
  /\ owner = "constructed"
  /\ clock = 0
  /\ trace_info = [t \in Tids |-> NoTraceInfo]
  /\ records = << >>
  /\ dwfl = {}
  /\ function_cache = << >>
  /\ func_names = << >>
  /\ file_names = << >>
  /\ stream = << >>
  /\ rdbuf = "none"
  /\ fs_ = "none"
  /\ sbuf_ = << >>
  /\ inbuf_ = << >>
  /\ inhint_ = 0
  /\ strInit_ = FALSE
  /\ strm_ = NoSession
  /\ written = << >>

\* the threads and their supervisors after construction: the target is
\* stopped, run() has not been called
InitThreads ==
  /\ tracee = InitTracee
  /\ threads = << >>
  /\ active_threads = 0
  /\ pc = [t \in Tids |-> IF t = target_pid THEN "start" ELSE "none"]
  /\ child_tid_list = << >>
  /\ tid_relations = << >>
  /\ vec_end = [t \in Tids |-> 0]
  /\ stat = ZeroStat
  /\ stat_load = [t \in Tids |-> NoLoad]

InitState == InitOther /\ InitThreads

\* the state after construction, with the configuration no option has changed
Init == InitState /\ config = DefaultConfig

\* ------------------------------------------------------------------------
\* The kernel and the tracee's processor
\* ------------------------------------------------------------------------
\* the system call of the instruction at address a.  The target that creates
\* no thread makes a second mmap of the shared object in the place of clone
\* (the loader maps every segment of an object with an mmap of the same file).
Nr(a) ==
  IF Text[a].nr = "clone" /\ cloneKind \in {"none", "segment"} THEN "mmap" ELSE Text[a].nr

\* the range [rax, rax + rsi) that the mmap of the instruction at address a
\* maps: the whole object, or one of its segments
MmapRange(a) ==
  IF Text[a].nr = "clone" /\ cloneKind = "segment" THEN SegmentMapping ELSE LibMapping

\* a file mapping over a range: the range holds the bytes of the file
MapFile(m, r) ==
  [a \in Addr |-> IF a >= r.base /\ a < r.base + r.length THEN OrigByte(a) ELSE m[a]]

World == [tracee |-> tracee, mem |-> mem, maps |-> maps, sysStops |-> sysStops]

\* one more syscall-stop of thread t reported for system call nr
BumpStops(ss, t, nr) ==
  [ss EXCEPT ![t] = [i \in SysIdx |->
      IF SyscallCallbacks[i].syscall = nr THEN ss[t][i] + 1 ELSE ss[t][i]]]

\* a thread about to return to user mode: a pending SIGSTOP is reported first
ReturnToUser(tr) ==
  IF tr.sig
  THEN [tr EXCEPT !.st = "stopped", !.ws = "sig", !.sig = FALSE, !.kp = "user"]
  ELSE [tr EXCEPT !.st = "running", !.ws = "none", !.kp = "user"]

\* the thread (clone) or process (fork) the clone system call creates: it is
\* traced from birth (PTRACE_O_TRACECLONE/FORK) and starts in a stop
NewThread(parent) ==
  [NoThread EXCEPT !.st = "stopped", !.traced = TRUE, !.ws = "sig",
                   !.rip = IF cloneKind = "fork" THEN parent.rip ELSE ThreadFunction,
                   !.as = IF cloneKind = "fork" THEN 2 ELSE parent.as]

\* PTRACE_SYSCALL on stopped thread t: the thread runs to its next stop inside
\* the kernel, or leaves for user mode
PtraceSyscall(w, t) ==
  LET tr == w.tracee[t]
      nr == IF tr.kp = "entry" THEN Nr(tr.rip - 1) ELSE "none"
      r == MmapRange(tr.rip - 1)
  IN CASE nr = "mmap" ->
            [w EXCEPT !.maps = IF r = LibMapping
                               THEN w.maps \cup {[path |-> libPath, base |-> r.base]}
                               ELSE w.maps,
                      !.mem[tr.as] = MapFile(w.mem[tr.as], r),
                      !.tracee[t] = [tr EXCEPT !.ws = "sys", !.kp = "exit"],
                      !.sysStops = BumpStops(w.sysStops, t, nr)]
       [] nr = "clone" ->
            [w EXCEPT !.tracee = [w.tracee EXCEPT ![t] = [tr EXCEPT !.ws = "clone", !.kp = "event"],
                                                  ![new_child] = NewThread(tr)],
                      !.mem = IF cloneKind = "fork"
                              THEN [w.mem EXCEPT ![2] = w.mem[tr.as]] ELSE w.mem]
       [] nr = "exit" ->
            [w EXCEPT !.tracee[t] = [tr EXCEPT !.st = "exited", !.ws = "exit", !.kp = "user"]]
       [] nr = "none" /\ tr.kp = "event" ->
            [w EXCEPT !.tracee[t] = [tr EXCEPT !.ws = "sys", !.kp = "exit"],
                      !.sysStops = BumpStops(w.sysStops, t, Nr(tr.rip - 1))]
       [] nr = "none" /\ tr.kp # "event" ->
            [w EXCEPT !.tracee[t] = ReturnToUser(tr)]

\* one user-mode instruction of the text
ExecUser(tr) ==
  LET ins == Text[tr.rip]
  IN CASE ins.op = "op" -> [tr EXCEPT !.rip = tr.rip + 1]
       [] ins.op = "call" -> [tr EXCEPT !.rip = ins.to, !.stk = Append(tr.stk, tr.rip + 1)]
       [] ins.op = "ret" -> [tr EXCEPT !.rip = Last(tr.stk), !.stk = Front(tr.stk)]
       [] ins.op = "loop" ->
            IF tr.iter + 1 < MaxCalls
            THEN [tr EXCEPT !.rip = ins.to, !.iter = tr.iter + 1]
            ELSE [tr EXCEPT !.rip = tr.rip + 1, !.iter = tr.iter + 1]

\* PTRACE_SINGLESTEP on stopped thread t and the stop that follows it: a pending
\* SIGSTOP is reported before any instruction; int3 traps with rip behind it.
\* (No system call of the text lies within two instructions of a breakpoint.)
SingleStep(w, t) ==
  LET tr == w.tracee[t]
  IN [w EXCEPT !.tracee[t] =
        IF tr.sig THEN [tr EXCEPT !.sig = FALSE]
        ELSE IF w.mem[tr.as][tr.rip] = INT3 THEN [tr EXCEPT !.rip = tr.rip + 1]
        ELSE ExecUser(tr)]

\* executions of hooked symbols: thread t fetches the instruction at address a
Counted(cnt, t, a, D) ==
  [cnt EXCEPT ![t] = [i \in FnIdx |->
      IF SymAddr(i) = a /\ a \in D THEN cnt[t][i] + 1 ELSE cnt[t][i]]]

\* a running thread executes the instruction at its rip
ThreadStep(t) ==
  /\ tracee[t].st = "running"
  /\ LET tr == tracee[t]
         a == tr.rip
         ins == Text[a]
     IN /\ tracee' = [tracee EXCEPT ![t] =
              IF mem[tr.as][a] = INT3
              THEN (IF tr.traced
                    THEN [tr EXCEPT !.rip = a + 1, !.st = "stopped", !.ws = "trap"]
                    ELSE [tr EXCEPT !.st = "exited"])
              ELSE IF ins.op = "syscall"
              THEN (IF tr.traced
                    THEN [tr EXCEPT !.rip = a + 1, !.st = "stopped", !.ws = "sys", !.kp = "entry"]
                    ELSE IF Nr(a) = "exit" THEN [tr EXCEPT !.st = "exited"]
                    ELSE [tr EXCEPT !.rip = a + 1])
              ELSE ExecUser(tr)]
        /\ calls' = Counted(calls, t, a, Addr)
        /\ execs' = Counted(execs, t, a, DOMAIN functions)
        /\ sysStops' = IF mem[tr.as][a] # INT3 /\ ins.op = "syscall" /\ tr.traced
                       THEN BumpStops(sysStops, t, Nr(a)) ELSE sysStops
  /\ UNCHANGED << envVars, mem, maps, has_loading_libraries, doing_setup,
                  loading_libraries, loaded_libraries, functions, breakpoints,
                  breakpoint_min, breakpoint_max, breakpoints_mutex, threads,
                  active_threads, pc, loc, child_tid_list, tid_relations, vec_end, stat, stat_load,
                  need_update_dwfl, mark_dirty, events, sysEvents, wrkVars >>

\* ------------------------------------------------------------------------
\* Debugger: breakpoint table and memory
\* ------------------------------------------------------------------------
libVars == << has_loading_libraries, doing_setup, loading_libraries, loaded_libraries >>
tabVars == << functions, breakpoints, breakpoint_min, breakpoint_max >>
statVars == << child_tid_list, tid_relations, vec_end, stat, stat_load >>
kernVars == << tracee, mem, maps, sysStops >>
cntVars == << calls, execs >>

SetWorld(w) ==
  /\ tracee' = w.tracee
  /\ mem' = w.mem
  /\ maps' = w.maps
  /\ sysStops' = w.sysStops

\* waitpid(t) has returned the thread's status to the caller
Reaped(w, t) == [w EXCEPT !.tracee[t].ws = "none"]

\* the tables together with the memory that the PEEK/POKE requests act on
Tables == [functions |-> functions, breakpoints |-> breakpoints,
           breakpoint_min |-> breakpoint_min, breakpoint_max |-> breakpoint_max,
           mem |-> mem]

SetTables(T) ==
  /\ functions' = T.functions
  /\ breakpoints' = T.breakpoints
  /\ breakpoint_min' = T.breakpoint_min
  /\ breakpoint_max' = T.breakpoint_max

\* PTRACE_POKETEXT of (orig & ~0xFF) | 0xCC
enable_breakpoint(T, as, addr) ==
  LET orig == T.breakpoints[addr]
  IN [T EXCEPT !.mem[as][addr] = (orig - (orig % 256)) + INT3]

\* PTRACE_POKETEXT of (data & ~0xFF) | (orig & 0xFF), unless the byte is no trap
disable_breakpoint(T, as, addr) ==
  LET data == T.mem[as][addr]
      orig == T.breakpoints[addr]
  IN IF data % 256 # INT3 THEN T
     ELSE [T EXCEPT !.mem[as][addr] = (data - (data % 256)) + (orig % 256)]

add_breakpoint(T, as, addr) ==
  LET T1 == [T EXCEPT
               !.breakpoints = Put(T.breakpoints, addr, T.mem[as][addr]),
               !.breakpoint_min = IF T.breakpoint_min = 0 /\ T.breakpoint_min > addr
                                  THEN addr ELSE T.breakpoint_min,
               !.breakpoint_max = IF T.breakpoint_max = 0 /\ T.breakpoint_max < addr
                                  THEN addr ELSE T.breakpoint_max]
  IN enable_breakpoint(T1, as, addr)

\* reset_breakpoint's loop over the table, in address order
RECURSIVE reset_loop(_, _, _, _, _)
reset_loop(T, as, range_min, range_max, addrs) ==
  IF addrs = << >> THEN T
  ELSE LET addr == Head(addrs)
           T1 == IF addr < range_min \/ addr > range_max THEN T
                 ELSE IF T.mem[as][addr] % 256 # INT3 THEN add_breakpoint(T, as, addr)
                 ELSE T
       IN reset_loop(T1, as, range_min, range_max, Tail(addrs))

reset_breakpoint(T, as, range_min, range_max) ==
  reset_loop(T, as, range_min, range_max, SortedSeq(DOMAIN T.breakpoints))

\* a load_libary callback that binds the address to the hook's index and
\* inserts no breakpoint
RECURSIVE load_libary_functions_only(_, _, _, _, _)
load_libary_functions_only(T, as, base, sym, i) ==
  IF sym.st_value = 0 \/ i > Len(FunctionCallbacks) THEN T
  ELSE LET breakpoint == base + sym.st_value
           T1 == IF FunctionCallbacks[i].name = sym.name
                    /\ breakpoint \notin DOMAIN T.breakpoints
                 THEN [T EXCEPT !.functions = Put(T.functions, breakpoint, i)]
                 ELSE T
       IN load_libary_functions_only(T1, as, base, sym, i + 1)

\* the load_libary callback of setup_breakpoint for one symbol: the loop over
\* the function callbacks from index i on
RECURSIVE load_libary(_, _, _, _, _)
load_libary(T, as, base, sym, i) ==
  IF sym.st_value = 0 \/ i > Len(FunctionCallbacks) THEN T
  ELSE LET breakpoint == base + sym.st_value
           T1 == IF FunctionCallbacks[i].name = sym.name
                    /\ breakpoint \notin DOMAIN T.breakpoints
                 THEN add_breakpoint([T EXCEPT !.functions = Put(T.functions, breakpoint, i)],
                                     as, breakpoint)
                 ELSE T
       IN load_libary(T1, as, base, sym, i + 1)

\* get_function_offset / parse_elf_file: the callback on every dynsym function
RECURSIVE parse_elf_file(_, _, _, _, _)
parse_elf_file(T, as, base, syms, k) ==
  IF k > Len(syms) THEN T
  ELSE parse_elf_file(load_libary(T, as, base, syms[k], 1), as, base, syms, k + 1)

\* ------------------------------------------------------------------------
\* Debugger: threads
\* ------------------------------------------------------------------------
ThreadData == [paused |-> FALSE, syscalls |-> [i \in SysIdx |-> FALSE], stack |-> << >>]

add_thread(th, tid) == IF tid \in DOMAIN th THEN th ELSE Put(th, tid, ThreadData)

\* a supervisor is inside pause_others, holding threads_mutex shared
SharedHeld == \E u \in Tids : pc[u] \in {"pause", "pausewait"}

\* run(): waitpid on the target, add_thread, and trace_thread up to its loop
run ==
  /\ pc[target_pid] = "start"
  /\ tracee[target_pid].ws # "none"
  /\ threads' = add_thread(threads, target_pid)
  /\ SetWorld(PtraceSyscall(Reaped(World, target_pid), target_pid))
  /\ pc' = [pc EXCEPT ![target_pid] = "wait"]
  /\ UNCHANGED << envVars, libVars, tabVars, breakpoints_mutex, active_threads, loc,
                  statVars, need_update_dwfl, mark_dirty, events, sysEvents, cntVars, wrkVars >>

\* a lambda of trace_new_thread that decrements active_threads only when
\* trace_thread returned true
Failed_no_decrement(t) ==
  /\ pc' = [pc EXCEPT ![t] = IF t = target_pid THEN "failed" ELSE "done"]
  /\ active_threads' = active_threads

\* what a supervisor whose trace_thread returned false does next: the lambda of
\* trace_new_thread decrements active_threads, run() returns false
Failed(t) ==
  /\ pc' = [pc EXCEPT ![t] = IF t = target_pid THEN "failed" ELSE "done"]
  /\ active_threads' = IF t = target_pid THEN active_threads ELSE active_threads - 1

\* trace_thread at a syscall-stop that goes to trace_syscall without a call of
\* setup_breakpoint
trace_thread_syscall_no_setup(t) ==
  /\ pc[t] = "wait"
  /\ tracee[t].ws = "sys"
  /\ SetWorld(Reaped(World, t))
  /\ pc' = [pc EXCEPT ![t] = "syscall"]
  /\ UNCHANGED << envVars, libVars, loc, tabVars, breakpoints_mutex, threads,
                  active_threads, statVars, need_update_dwfl, mark_dirty, events, sysEvents,
                  cntVars, wrkVars >>

\* trace_thread at a syscall-stop: the test of has_loading_libraries and the
\* test_and_set of setup_breakpoint
trace_thread_syscall(t) ==
  /\ pc[t] = "wait"
  /\ tracee[t].ws = "sys"
  /\ SetWorld(Reaped(World, t))
  /\ IF has_loading_libraries /\ doing_setup
     THEN /\ pc' = [pc EXCEPT ![t] = "scan"]
          /\ loc' = [loc EXCEPT ![t].scan = MapsLines(maps), ![t].result = TRUE]
          /\ UNCHANGED doing_setup
     ELSE /\ pc' = [pc EXCEPT ![t] = "syscall"]
          /\ doing_setup' = (has_loading_libraries \/ doing_setup)
          /\ UNCHANGED loc
  /\ UNCHANGED << envVars, has_loading_libraries, loading_libraries, loaded_libraries,
                  tabVars, breakpoints_mutex, threads, active_threads, statVars,
                  need_update_dwfl, mark_dirty, events, sysEvents, cntVars, wrkVars >>

\* a flag that stays as on_mmap_invoke raised it
has_loading_raised(loading) == TRUE

\* the flag as process_maps_entry recomputes it inside its lock on
\* libraries_mutex, after the erase
has_loading(loading) == loading # {}

\* setup_breakpoint: the next line of the maps file (process_maps_entry up to
\* its locks), or the end of get_maps_addr
setup_breakpoint(t) ==
  /\ pc[t] = "scan"
  /\ IF loc[t].scan = << >>
     THEN /\ doing_setup' = FALSE
          /\ IF loc[t].result
             THEN pc' = [pc EXCEPT ![t] = "syscall"] /\ UNCHANGED active_threads
             ELSE Failed(t)
          /\ UNCHANGED << has_loading_libraries, loading_libraries, loaded_libraries,
                          need_update_dwfl, mark_dirty, loc >>
     ELSE LET e == Head(loc[t].scan)
          IN IF e.path \in loaded_libraries
             THEN /\ loc' = [loc EXCEPT ![t].scan = Tail(loc[t].scan)]
                  /\ UNCHANGED << libVars, need_update_dwfl, mark_dirty, pc, active_threads >>
             ELSE /\ loaded_libraries' = loaded_libraries \cup {e.path}
                  /\ loading_libraries' = loading_libraries \ {e.path}
                  /\ has_loading_libraries' = has_loading(loading_libraries')
                  /\ need_update_dwfl' = TRUE
                  /\ mark_dirty' = TRUE
                  /\ pc' = [pc EXCEPT ![t] = "load"]
                  /\ UNCHANGED << doing_setup, loc, active_threads >>
  /\ UNCHANGED << envVars, kernVars, tabVars, breakpoints_mutex, threads, statVars,
                  events, sysEvents, cntVars, wrkVars >>

\* get_function_offset: parse_elf_file refuses a file that is no longer than
\* its header
get_function_offset(path) == path # TruncatedPath

\* process_maps_entry from its two unique locks on: the symbols of the file;
\* a file that get_function_offset refuses makes the result of the scan false
process_maps_entry(t) ==
  /\ pc[t] = "load"
  /\ breakpoints_mutex = 0
  /\ LET e == Head(loc[t].scan)
         ok == get_function_offset(e.path)
         T == IF ok THEN parse_elf_file(Tables, tracee[t].as, e.base, Dynsym(e.path), 1)
              ELSE Tables
     IN /\ SetTables(T) /\ mem' = T.mem
        /\ loc' = [loc EXCEPT ![t].scan = Tail(loc[t].scan),
                              ![t].result = loc[t].result /\ ok]
  /\ pc' = [pc EXCEPT ![t] = "scan"]
  /\ UNCHANGED << envVars, tracee, maps, sysStops, libVars, breakpoints_mutex, threads,
                  active_threads, statVars, need_update_dwfl, mark_dirty, events, sysEvents,
                  cntVars, wrkVars >>

\* ------------------------------------------------------------------------
\* Debugger: system calls
\* ------------------------------------------------------------------------
\* the slots whose system call number is orig_rax
Matching(nr) == { i \in SysIdx : SyscallCallbacks[i].syscall = nr }

\* a loop that raises the in-flight flag of a matching slot and never lowers it
trace_syscall_flags_raise_only(flags, nr) ==
  [i \in SysIdx |-> IF i \in Matching(nr) THEN TRUE ELSE flags[i]]

\* trace_syscall: the in-flight flags after the loop over the slots
trace_syscall_flags(flags, nr) ==
  [i \in SysIdx |-> IF i \in Matching(nr) THEN ~flags[i] ELSE flags[i]]

\* trace_syscall: the hooks the loop calls, in slot order
RECURSIVE trace_syscall_hooks(_, _, _)
trace_syscall_hooks(flags, nr, i) ==
  IF i > Len(SyscallCallbacks) THEN << >>
  ELSE (IF i \in Matching(nr)
        THEN (IF flags[i]
              THEN (IF SyscallCallbacks[i].result
                    THEN << [slot |-> i, kind |-> "result"] >> ELSE << >>)
              ELSE (IF SyscallCallbacks[i].invoke
                    THEN << [slot |-> i, kind |-> "invoke"] >> ELSE << >>))
        ELSE << >>) \o trace_syscall_hooks(flags, nr, i + 1)

\* on_mmap_invoke: does the path of the mapped file pass the ".so" test
IsSharedObject(file_path) ==
  LET so_ext == << ".", "s", "o" >>
      so_pos == Find(file_path, so_ext)
      so_tail == so_pos + Len(so_ext)
  IN /\ so_pos # -1
     /\ (so_tail = Len(file_path) \/ file_path[so_tail + 1] = ".")

\* on_mmap_result: does the new mapping [rax, rax + rsi) touch the table's range
TouchesBreakpoints(rax, rsi) ==
  rax < breakpoint_max /\ rax + rsi > breakpoint_min

\* trace_syscall with the hooks it calls, and the PTRACE_SYSCALL of trace_thread
trace_syscall(t) ==
  /\ pc[t] = "syscall"
  /\ LET nr == Nr(tracee[t].rip - 1)
         flags == threads[t].syscalls
         hooks == trace_syscall_hooks(flags, nr, 1)
         on_mmap_invoke == \E h \in { hooks[k] : k \in 1 .. Len(hooks) } :
                              SyscallCallbacks[h.slot].builtin /\ h.kind = "invoke"
         on_mmap_result == \E h \in { hooks[k] : k \in 1 .. Len(hooks) } :
                              SyscallCallbacks[h.slot].builtin /\ h.kind = "result"
         rax == MmapRange(tracee[t].rip - 1).base
         rsi == MmapRange(tracee[t].rip - 1).length
         reset == on_mmap_result /\ TouchesBreakpoints(rax, rsi)
         T == IF reset
              THEN reset_breakpoint(Tables, tracee[t].as, rax, rax + rsi)
              ELSE Tables
     IN /\ reset => breakpoints_mutex = 0
        /\ threads' = [threads EXCEPT ![t].syscalls = trace_syscall_flags(flags, nr)]
        /\ sysEvents' = [sysEvents EXCEPT ![t] = sysEvents[t] \o hooks]
        /\ IF on_mmap_invoke /\ IsSharedObject(libPath)
           THEN /\ loading_libraries' = loading_libraries \cup {libPath}
                /\ has_loading_libraries' = TRUE
           ELSE UNCHANGED << loading_libraries, has_loading_libraries >>
        /\ need_update_dwfl' = (need_update_dwfl \/ reset)
        /\ mark_dirty' = (mark_dirty \/ reset)
        /\ SetTables(T)
        /\ SetWorld(PtraceSyscall([World EXCEPT !.mem = T.mem], t))
  /\ pc' = [pc EXCEPT ![t] = "wait"]
  /\ UNCHANGED << envVars, doing_setup, loaded_libraries, breakpoints_mutex,
                  active_threads, loc, statVars, events, cntVars, wrkVars >>

\* trace_breakpoint that tracks the return of every function, whether or not
\* a result hook is registered for it
trace_breakpoint_always_tracked(t) ==
  /\ \/ pc[t] = "wait" /\ tracee[t].ws = "trap"
     \/ pc[t] = "bp"
  /\ LET rip == tracee[t].rip
         stack == threads[t].stack
         entry == (rip - 1) \in DOMAIN functions
         index == functions[rip - 1]
         return == ~entry /\ stack # << >> /\ Last(stack).breakpoint = rip - 1
         other == ~entry /\ ~return /\ (rip - 1) \in DOMAIN breakpoints
         tracked == entry
         result_addr == Last(tracee[t].stk)
     IN /\ events' = [events EXCEPT ![t] =
              IF entry /\ FunctionCallbacks[index].invoke
              THEN Append(events[t], [kind |-> "invoke", f |-> index])
              ELSE IF return /\ FunctionCallbacks[Last(stack).function_index].result
              THEN Append(events[t], [kind |-> "result", f |-> Last(stack).function_index])
              ELSE events[t]]
        /\ threads' = [threads EXCEPT ![t].stack =
              IF tracked
              THEN Append(stack, [breakpoint |-> result_addr, function_index |-> index])
              ELSE IF return THEN Front(stack)
              ELSE stack]
        /\ loc' = [loc EXCEPT ![t].addr = IF entry \/ return \/ other THEN rip - 1 ELSE 0,
                              ![t].raddr = IF tracked THEN result_addr ELSE 0]
        /\ IF entry \/ return \/ other
           THEN /\ pc' = [pc EXCEPT ![t] = IF tracked THEN "addret" ELSE "steplock"]
                /\ SetWorld(Reaped(World, t))
           ELSE /\ pc' = [pc EXCEPT ![t] = "wait"]
                /\ SetWorld(PtraceSyscall(Reaped(World, t), t))
  /\ UNCHANGED << envVars, libVars, tabVars, breakpoints_mutex, active_threads,
                  statVars, need_update_dwfl, mark_dirty, sysEvents, cntVars, wrkVars >>

\* trace_breakpoint that leaves the entry on the stack when the thread returns
trace_breakpoint_no_pop(t) ==
  /\ \/ pc[t] = "wait" /\ tracee[t].ws = "trap"
     \/ pc[t] = "bp"
  /\ LET rip == tracee[t].rip
         stack == threads[t].stack
         entry == (rip - 1) \in DOMAIN functions
         index == functions[rip - 1]
         return == ~entry /\ stack # << >> /\ Last(stack).breakpoint = rip - 1
         other == ~entry /\ ~return /\ (rip - 1) \in DOMAIN breakpoints
         tracked == entry /\ FunctionCallbacks[index].result
         result_addr == Last(tracee[t].stk)
     IN /\ events' = [events EXCEPT ![t] =
              IF entry /\ FunctionCallbacks[index].invoke
              THEN Append(events[t], [kind |-> "invoke", f |-> index])
              ELSE IF return /\ FunctionCallbacks[Last(stack).function_index].result
              THEN Append(events[t], [kind |-> "result", f |-> Last(stack).function_index])
              ELSE events[t]]
        /\ threads' = [threads EXCEPT ![t].stack =
              IF tracked
              THEN Append(stack, [breakpoint |-> result_addr, function_index |-> index])
              ELSE stack]
        /\ loc' = [loc EXCEPT ![t].addr = IF entry \/ return \/ other THEN rip - 1 ELSE 0,
                              ![t].raddr = IF tracked THEN result_addr ELSE 0]
        /\ IF entry \/ return \/ other
           THEN /\ pc' = [pc EXCEPT ![t] = IF tracked THEN "addret" ELSE "steplock"]
                /\ SetWorld(Reaped(World, t))
           ELSE /\ pc' = [pc EXCEPT ![t] = "wait"]
                /\ SetWorld(PtraceSyscall(Reaped(World, t), t))
  /\ UNCHANGED << envVars, libVars, tabVars, breakpoints_mutex, active_threads,
                  statVars, need_update_dwfl, mark_dirty, sysEvents, cntVars, wrkVars >>

\* ------------------------------------------------------------------------
\* Debugger: breakpoints
\* ------------------------------------------------------------------------
\* trace_thread at a SIGTRAP stop (a breakpoint trap, or the event stop of a
\* clone after trace_new_thread): trace_breakpoint up to the first lock.
\* In the return case the entry is read through a reference after pop_back
\* (debugger.h:415-420); the slot stays in the vector's storage and nothing
\* writes it before the read, so the read yields the popped entry.
trace_breakpoint(t) ==
  /\ \/ pc[t] = "wait" /\ tracee[t].ws = "trap"
     \/ pc[t] = "bp"
  /\ LET rip == tracee[t].rip
         stack == threads[t].stack
         entry == (rip - 1) \in DOMAIN functions
         index == functions[rip - 1]
         return == ~entry /\ stack # << >> /\ Last(stack).breakpoint = rip - 1
         other == ~entry /\ ~return /\ (rip - 1) \in DOMAIN breakpoints
         tracked == entry /\ FunctionCallbacks[index].result
         result_addr == Last(tracee[t].stk)
     IN /\ events' = [events EXCEPT ![t] =
              IF entry /\ FunctionCallbacks[index].invoke
              THEN Append(events[t], [kind |-> "invoke", f |-> index])
              ELSE IF return /\ FunctionCallbacks[Last(stack).function_index].result
              THEN Append(events[t], [kind |-> "result", f |-> Last(stack).function_index])
              ELSE events[t]]
        /\ threads' = [threads EXCEPT ![t].stack =
              IF tracked
              THEN Append(stack, [breakpoint |-> result_addr, function_index |-> index])
              ELSE IF return THEN Front(stack)
              ELSE stack]
        /\ loc' = [loc EXCEPT ![t].addr = IF entry \/ return \/ other THEN rip - 1 ELSE 0,
                              ![t].raddr = IF tracked THEN result_addr ELSE 0]
        /\ IF entry \/ return \/ other
           THEN /\ pc' = [pc EXCEPT ![t] = IF tracked THEN "addret" ELSE "steplock"]
                /\ SetWorld(Reaped(World, t))
           ELSE /\ pc' = [pc EXCEPT ![t] = "wait"]
                /\ SetWorld(PtraceSyscall(Reaped(World, t), t))
  /\ UNCHANGED << envVars, libVars, tabVars, breakpoints_mutex, active_threads,
                  statVars, need_update_dwfl, mark_dirty, sysEvents, cntVars, wrkVars >>

\* a process lambda that installs the breakpoint on the return address whether
\* or not the table holds the address
process_result_addr_always(t) ==
  /\ pc[t] = "addret"
  /\ breakpoints_mutex = 0
  /\ LET T == add_breakpoint(Tables, tracee[t].as, loc[t].raddr)
     IN SetTables(T) /\ mem' = T.mem
  /\ pc' = [pc EXCEPT ![t] = "steplock"]
  /\ UNCHANGED << envVars, tracee, maps, sysStops, libVars, breakpoints_mutex, threads,
                  active_threads, loc, statVars, need_update_dwfl, mark_dirty, events, sysEvents,
                  cntVars, wrkVars >>

\* the process lambda of trace_breakpoint: the breakpoint on the return address,
\* under its own unique lock
process_result_addr(t) ==
  /\ pc[t] = "addret"
  /\ breakpoints_mutex = 0
  /\ LET T == IF loc[t].raddr \notin DOMAIN breakpoints
              THEN add_breakpoint(Tables, tracee[t].as, loc[t].raddr)
              ELSE Tables
     IN SetTables(T) /\ mem' = T.mem
  /\ pc' = [pc EXCEPT ![t] = "steplock"]
  /\ UNCHANGED << envVars, tracee, maps, sysStops, libVars, breakpoints_mutex, threads,
                  active_threads, loc, statVars, need_update_dwfl, mark_dirty, events, sysEvents,
                  cntVars, wrkVars >>

\* a step-over that does not wait for the breakpoint lock
resume_thread_breakpoint_no_wait(t) ==
  /\ pc[t] = "steplock"
  /\ breakpoints_mutex' = t
  /\ loc' = [loc EXCEPT ![t].todo = SortedSeq(DOMAIN threads)]
  /\ pc' = [pc EXCEPT ![t] = "pause"]
  /\ UNCHANGED << envVars, kernVars, libVars, tabVars, threads, active_threads,
                  statVars, need_update_dwfl, mark_dirty, events, sysEvents, cntVars, wrkVars >>

\* resume_thread_breakpoint: the unique lock, and pause_others' shared lock
resume_thread_breakpoint(t) ==
  /\ pc[t] = "steplock"
  /\ breakpoints_mutex = 0
  /\ breakpoints_mutex' = t
  /\ loc' = [loc EXCEPT ![t].todo = SortedSeq(DOMAIN threads)]
  /\ pc' = [pc EXCEPT ![t] = "pause"]
  /\ UNCHANGED << envVars, kernVars, libVars, tabVars, threads, active_threads,
                  statVars, need_update_dwfl, mark_dirty, events, sysEvents, cntVars, wrkVars >>

\* PTRACE_GETSIGINFO(oid) by the supervisor of another thread succeeds
IsStopped(oid) ==
  ptraceScope = "any" /\ tracee[oid].traced /\ tracee[oid].st = "stopped"

\* pause_others: one round of the loop over the threads, up to its waitpid
pause_others(t) ==
  /\ pc[t] = "pause"
  /\ LET oid == Head(loc[t].todo)
         rest == Tail(loc[t].todo)
     IN /\ threads' = [threads EXCEPT ![oid].paused = FALSE]
        /\ IF oid = t \/ ~IsStopped(oid)
           THEN /\ loc' = [loc EXCEPT ![t].todo = rest]
                /\ pc' = [pc EXCEPT ![t] = IF rest = << >> THEN "disable" ELSE "pause"]
                /\ UNCHANGED tracee
           ELSE /\ tracee' = [tracee EXCEPT ![oid].sig = TRUE]
                /\ pc' = [pc EXCEPT ![t] = "pausewait"]
                /\ UNCHANGED loc
  /\ UNCHANGED << envVars, mem, maps, sysStops, libVars, tabVars, breakpoints_mutex,
                  active_threads, statVars, need_update_dwfl, mark_dirty, events, sysEvents,
                  cntVars, wrkVars >>

\* pause_others: waitpid(oid) has returned; a status that is no stop makes
\* pause_others, and with it trace_thread, return false
pause_others_wait(t) ==
  /\ pc[t] = "pausewait"
  /\ LET oid == Head(loc[t].todo)
         rest == Tail(loc[t].todo)
     IN /\ tracee[oid].ws # "none"
        /\ SetWorld(Reaped(World, oid))
        /\ IF tracee[oid].ws = "exit"
           THEN /\ breakpoints_mutex' = 0
                /\ Failed(t)
                /\ UNCHANGED << threads, loc >>
           ELSE /\ threads' = [threads EXCEPT ![oid].paused = TRUE]
                /\ loc' = [loc EXCEPT ![t].todo = rest]
                /\ pc' = [pc EXCEPT ![t] = IF rest = << >> THEN "disable" ELSE "pause"]
                /\ UNCHANGED << breakpoints_mutex, active_threads >>
  /\ UNCHANGED << envVars, libVars, tabVars, statVars, need_update_dwfl, mark_dirty, events,
                  sysEvents, cntVars, wrkVars >>

\* resume_breakpoint: rip back on the breakpoint, the original byte restored,
\* and the first single step with its waitpid
resume_breakpoint(t) ==
  /\ pc[t] = "disable"
  /\ LET addr == loc[t].addr
         T == disable_breakpoint(Tables, tracee[t].as, addr)
         w == [World EXCEPT !.tracee[t].rip = addr, !.mem = T.mem]
     IN SetWorld(SingleStep(w, t))
  /\ pc' = [pc EXCEPT ![t] = "step"]
  /\ UNCHANGED << envVars, libVars, tabVars, breakpoints_mutex, threads, active_threads,
                  loc, statVars, need_update_dwfl, mark_dirty, events, sysEvents, cntVars, wrkVars >>

\* continue_others: PTRACE_SYSCALL on every thread marked paused, in tid order;
\* a refused request ends the loop with ok = FALSE
RECURSIVE continue_others(_, _)
continue_others(r, oids) ==
  IF oids = << >> \/ ~r.ok THEN r
  ELSE LET oid == Head(oids)
       IN IF ~r.threads[oid].paused THEN continue_others(r, Tail(oids))
          ELSE IF r.w.tracee[oid].st # "stopped" \/ ~r.w.tracee[oid].traced
          THEN [r EXCEPT !.ok = FALSE]
          ELSE continue_others([r EXCEPT !.w = PtraceSyscall(r.w, oid),
                                         !.threads[oid].paused = FALSE], Tail(oids))

\* resume_breakpoint from its second single step on: the breakpoint re-armed;
\* then continue_others, the unlock, and the PTRACE_SYSCALL of trace_thread
resume_breakpoint_enable(t) ==
  /\ pc[t] = "step"
  /\ LET addr == loc[t].addr
         a == tracee[t].rip
         w1 == SingleStep(World, t)
         T == enable_breakpoint([Tables EXCEPT !.mem = w1.mem], tracee[t].as, addr)
         r == continue_others([w |-> [w1 EXCEPT !.mem = T.mem], threads |-> threads, ok |-> TRUE],
                              SortedSeq(DOMAIN threads))
         stepped == ~tracee[t].sig /\ a # addr
     IN /\ threads' = r.threads
        /\ calls' = IF stepped THEN Counted(calls, t, a, Addr) ELSE calls
        /\ execs' = IF stepped THEN Counted(execs, t, a, DOMAIN functions) ELSE execs
        /\ IF r.ok
           THEN /\ SetWorld(PtraceSyscall(r.w, t))
                /\ pc' = [pc EXCEPT ![t] = "wait"]
                /\ UNCHANGED active_threads
           ELSE /\ SetWorld(r.w)
                /\ Failed(t)
  /\ breakpoints_mutex' = 0
  /\ UNCHANGED << envVars, libVars, tabVars, loc, statVars, need_update_dwfl, mark_dirty, events,
                  sysEvents, wrkVars >>

\* resume_breakpoint when the kernel refuses PTRACE_SINGLESTEP (the first or
\* the second of the loop): the thread stays in its stop, resume_breakpoint
\* returns false, resume_thread_breakpoint returns false without
\* continue_others and unlocks, and trace_breakpoint and trace_thread return
\* false
resume_breakpoint_refused(t) ==
  /\ pc[t] \in {"disable", "step"}
  /\ LET addr == loc[t].addr
         T == disable_breakpoint(Tables, tracee[t].as, addr)
     IN IF pc[t] = "disable"
        THEN SetWorld([World EXCEPT !.tracee[t].rip = addr, !.mem = T.mem])
        ELSE UNCHANGED kernVars
  /\ breakpoints_mutex' = 0
  /\ Failed(t)
  /\ UNCHANGED << envVars, libVars, tabVars, threads, loc, statVars, need_update_dwfl, mark_dirty,
                  events, sysEvents, cntVars, wrkVars >>

\* ------------------------------------------------------------------------
\* Debugger: new threads, signals, exit
\* ------------------------------------------------------------------------
\* trace_new_thread up to add_thread: add_new_tid, the child's first stop
\* reaped, and the child detached with SIGSTOP
trace_new_thread(t) ==
  /\ pc[t] = "wait"
  /\ tracee[t].ws = "clone"
  /\ tracee[new_child].ws # "none"
  /\ child_tid_list' = Append(child_tid_list, new_child)
  /\ tid_relations' = Append(tid_relations, << t, new_child >>)
  /\ tracee' = [tracee EXCEPT ![t].ws = "none",
                              ![new_child].ws = "none", ![new_child].traced = FALSE]
  /\ pc' = [pc EXCEPT ![t] = "newthread"]
  /\ UNCHANGED << envVars, mem, maps, sysStops, libVars, tabVars, breakpoints_mutex,
                  threads, active_threads, loc, vec_end, stat, stat_load, need_update_dwfl, mark_dirty, events,
                  sysEvents, cntVars, wrkVars >>

\* trace_new_thread from add_thread (the unique lock on threads_mutex) on: the
\* supervisor of the child is started
trace_new_thread_spawn(t) ==
  /\ pc[t] = "newthread"
  /\ ~SharedHeld
  /\ threads' = add_thread(threads, new_child)
  /\ active_threads' = active_threads + 1
  /\ pc' = [pc EXCEPT ![t] = "bp", ![new_child] = "attach"]
  /\ UNCHANGED << envVars, kernVars, libVars, tabVars, breakpoints_mutex, loc, statVars,
                  need_update_dwfl, mark_dirty, events, sysEvents, cntVars, wrkVars >>

\* the lambda of trace_new_thread: PTRACE_ATTACH, waitpid, and trace_thread up
\* to its loop
supervisor_attach(t) ==
  /\ pc[t] = "attach"
  /\ tracee[t].st = "stopped"
  /\ SetWorld(PtraceSyscall([World EXCEPT !.tracee[t].traced = TRUE], t))
  /\ pc' = [pc EXCEPT ![t] = "wait"]
  /\ UNCHANGED << envVars, libVars, tabVars, breakpoints_mutex, threads, active_threads,
                  loc, statVars, need_update_dwfl, mark_dirty, events, sysEvents, cntVars, wrkVars >>

\* trace_thread at a signal-delivery-stop: the signal is forwarded
trace_thread_signal(t) ==
  /\ pc[t] = "wait"
  /\ tracee[t].ws = "sig"
  /\ SetWorld(PtraceSyscall(Reaped(World, t), t))
  /\ UNCHANGED << envVars, libVars, tabVars, breakpoints_mutex, threads, active_threads,
                  pc, loc, statVars, need_update_dwfl, mark_dirty, events, sysEvents, cntVars, wrkVars >>

\* trace_thread at the exit status: the loop ends; the lambda of the child
\* decrements active_threads, run() goes on to wait for the other supervisors
trace_thread_exit(t) ==
  /\ pc[t] = "wait"
  /\ tracee[t].ws = "exit"
  /\ SetWorld(Reaped(World, t))
  /\ pc' = [pc EXCEPT ![t] = IF t = target_pid THEN "poll" ELSE "done"]
  /\ active_threads' = IF t = target_pid THEN active_threads ELSE active_threads - 1
  /\ UNCHANGED << envVars, libVars, tabVars, breakpoints_mutex, threads, loc, statVars,
                  need_update_dwfl, mark_dirty, events, sysEvents, cntVars, wrkVars >>

\* trace_thread when waitpid fails (the exit status went to pause_others):
\* status is not written, and the loop acts on whatever it holds: an exit
\* status ends the loop, a stop is handled again with every request refused
trace_thread_lost(t) ==
  /\ pc[t] = "wait"
  /\ tracee[t].st = "exited"
  /\ tracee[t].ws = "none"
  /\ \E exited \in BOOLEAN :
       /\ pc' = [pc EXCEPT ![t] = IF ~exited THEN "lost"
                                  ELSE IF t = target_pid THEN "poll" ELSE "done"]
       /\ active_threads' = IF exited /\ t # target_pid THEN active_threads - 1
                            ELSE active_threads
  /\ UNCHANGED << envVars, kernVars, libVars, tabVars, breakpoints_mutex, threads, loc,
                  statVars, need_update_dwfl, mark_dirty, events, sysEvents, cntVars, wrkVars >>

\* run(): the poll of active_threads, and join_threads
run_join ==
  /\ pc[target_pid] = "poll"
  /\ active_threads = 0
  /\ pc' = [pc EXCEPT ![target_pid] = "done"]
  /\ UNCHANGED << envVars, kernVars, libVars, tabVars, breakpoints_mutex, threads,
                  active_threads, loc, statVars, need_update_dwfl, mark_dirty, events, sysEvents,
                  cntVars, wrkVars >>

Next ==
  \/ \E t \in Tids : ThreadStep(t)
  \/ run
  \/ \E t \in Tids : trace_thread_syscall(t)
  \/ \E t \in Tids : setup_breakpoint(t)
  \/ \E t \in Tids : process_maps_entry(t)
  \/ \E t \in Tids : trace_syscall(t)
  \/ \E t \in Tids : trace_breakpoint(t)
  \/ \E t \in Tids : process_result_addr(t)
  \/ \E t \in Tids : resume_thread_breakpoint(t)
  \/ \E t \in Tids : pause_others(t)
  \/ \E t \in Tids : pause_others_wait(t)
  \/ \E t \in Tids : resume_breakpoint(t)
  \/ \E t \in Tids : resume_breakpoint_enable(t)
  \/ \E t \in Tids : trace_new_thread(t)
  \/ \E t \in Tids : trace_new_thread_spawn(t)
  \/ \E t \in Tids : supervisor_attach(t)
  \/ \E t \in Tids : trace_thread_signal(t)
  \/ \E t \in Tids : trace_thread_exit(t)
  \/ \E t \in Tids : trace_thread_lost(t)
  \/ run_join

Spec == Init /\ [][Next]_vars

\* every step the supervisor of thread t can take
SupervisorStep(t) ==
  \/ trace_thread_syscall(t)
  \/ setup_breakpoint(t)
  \/ process_maps_entry(t)
  \/ trace_syscall(t)
  \/ trace_breakpoint(t)
  \/ process_result_addr(t)
  \/ resume_thread_breakpoint(t)
  \/ pause_others(t)
  \/ pause_others_wait(t)
  \/ resume_breakpoint(t)
  \/ resume_breakpoint_enable(t)
  \/ trace_new_thread(t)
  \/ trace_new_thread_spawn(t)
  \/ supervisor_attach(t)
  \/ trace_thread_signal(t)
  \/ trace_thread_exit(t)
  \/ trace_thread_lost(t)

\* Every supervisor is a thread of the tracer (the caller of run(), or the
\* std::thread of trace_new_thread) and every running thread of the tracee is
\* scheduled: a step of one of them that stays possible is eventually taken.
\* A lock that is free is eventually acquired by a supervisor that waits for
\* it; nothing is assumed about a waitpid whose thread reports no status.
EngineFairness ==
  /\ \A t \in Tids : WF_vars(ThreadStep(t))
  /\ \A t \in Tids : WF_vars(SupervisorStep(t))
  /\ WF_vars(run)
  /\ WF_vars(run_join)

SpecLive == Init /\ [][Next]_vars /\ EngineFairness

\* The engine on a kernel that can refuse a single step of a stopped thread
NextFault ==
  \/ Next
  \/ \E t \in Tids : resume_breakpoint_refused(t)

SpecFault == Init /\ [][NextFault]_vars

\* ------------------------------------------------------------------------
\* TraceData: the queue and its worker
\* ------------------------------------------------------------------------
\* The flags stopped and need_update_dwfl are plain bools shared between the
\* worker and the other threads.  The loop calls opaque functions between two
\* reads of a flag, so the build reloads it each time, and a load that sees an
\* old value is the load of an earlier moment: reading the flag in one step
\* covers the outcomes.
\* op_type::UNKNOWN and op_type::MALLOC
UNKNOWN == 0
MALLOC == 11

\* Operation::invoke and Operation::result: the tag of an operation's phases
invoke(type) == (type * 2) % 256
result(type) == (type * 2 + 1) % 256

IsInvoke(tag) == tag % 2 = 0

\* the markers of the name entries
FILE_NAME_ENTRY == invoke(UNKNOWN)
FUNC_NAME_ENTRY == result(UNKNOWN)

\* the tags the hooks of the model pass to add()
Tags == {invoke(MALLOC), result(MALLOC)}

\* The instruction pointers the unwinder reports: 1 and 2 lie in the
\* executable, 3 in the shared library, 4 in a mapping no module backs.
IPs == {1, 2, 3, 4}
NoModule == << >>
ModuleOf(ip) == CASE ip \in {1, 2} -> ExePath
                  [] ip = 3 -> GoodLibPath
                  [] OTHER -> NoModule

\* nullptr as a name
NULL == "nullptr"

\* dwfl_addrmodule: the module of the session that contains the address
dwfl_addrmodule(session, addr) ==
  IF ModuleOf(addr) \in session THEN ModuleOf(addr) ELSE NoModule

\* dwfl_module_addrname: the executable's second address has no symbol
dwfl_module_addrname(addr) ==
  CASE addr = 1 -> "main"
    [] addr = 3 -> "malloc"
    [] OTHER -> NULL

\* dwfl_module_getsrc and dwfl_lineinfo: the library has no line information,
\* the line and the column stay -1
dwfl_lineinfo(addr) ==
  CASE addr = 1 -> [file_name |-> "t.c", line_no |-> 3, col_no |-> 5]
    [] addr = 2 -> [file_name |-> "t.c", line_no |-> 4, col_no |-> 1]
    [] OTHER -> [file_name |-> NULL, line_no |-> -1, col_no |-> -1]

\* the call chains of the tracee at a hook, innermost frame first
CallChains == {<< 3, 1 >>, << 4, 2 >>}

\* the sessions a report of the mappings can produce
ModuleSets == {{ExePath}, {ExePath, GoodLibPath}}

\* the sessions a report that fails leaves: dwfl_report_end drops the modules
\* the failed dwfl_linux_proc_report had not reported again
PartialModuleSets == {{}, {ExePath}}

\* FunctionInfo stack[STACK_MAX] = {0}: one slot
ZeroFunctionInfo == [file_index |-> 0, func_index |-> 0, line_no |-> 0, col_no |-> 0]

\* std::unordered_map::size
size(names) == Cardinality(DOMAIN names)

\* set_name_index without the lookup's early return: a name that is found is
\* reported as inserted again
set_name_index_no_find(name, names) ==
  LET n == IF name = NULL THEN "<nil>" ELSE name
  IN [name |-> n, index |-> IF n \in DOMAIN names THEN names[n] ELSE size(names),
      inserted |-> TRUE,
      names |-> IF n \in DOMAIN names THEN names ELSE Put(names, n, size(names))]

\* set_name_index with the size read after the insertion of the name
set_name_index_size_after(name, names) ==
  LET n == IF name = NULL THEN "<nil>" ELSE name
  IN IF n \in DOMAIN names
     THEN [name |-> n, index |-> names[n], inserted |-> FALSE, names |-> names]
     ELSE [name |-> n, index |-> size(names) + 1, inserted |-> TRUE,
           names |-> Put(names, n, size(names) + 1)]

\* set_name_index: the name (nullptr becomes "<nil>"), its index, whether it
\* was inserted, and the table afterwards.  In `index = names[name] =
\* names.size()` the size is read before the insertion.
set_name_index(name, names) ==
  LET n == IF name = NULL THEN "<nil>" ELSE name
  IN IF n \in DOMAIN names
     THEN [name |-> n, index |-> names[n], inserted |-> FALSE, names |-> names]
     ELSE [name |-> n, index |-> size(names), inserted |-> TRUE,
           names |-> Put(names, n, size(names))]

\* write_name_entry: the marker, the length and the bytes of the name
write_name_entry(out, entry_type, name) ==
  Append(out, [tag |-> entry_type, name |-> name])

\* write_trace_info: the record's header and stack_size slots of the stack
write_trace_info(out, info, stack) ==
  Append(out, [tag |-> info.tag, tid |-> info.tid, timestamp |-> info.timestamp,
               stack_size |-> Len(info.stack), stack |-> stack])

\* the body of the loop of TraceData::process for frame i; st holds the
\* cache, the two name tables, the stream and the stack filled so far
process_frame(st, ip) ==
  IF ip \in DOMAIN st.function_cache
  THEN [st EXCEPT !.stack = Append(@, st.function_cache[ip])]
  ELSE IF dwfl_addrmodule(dwfl, ip) = NoModule
  THEN [st EXCEPT !.stack = Append(@, ZeroFunctionInfo)]
  ELSE LET fn == set_name_index(dwfl_module_addrname(ip), st.func_names)
           out1 == IF fn.inserted
                   THEN write_name_entry(st.stream, FUNC_NAME_ENTRY, fn.name)
                   ELSE st.stream
           line == dwfl_lineinfo(ip)
           fl == set_name_index(line.file_name, st.file_names)
           out2 == IF fl.inserted
                   THEN write_name_entry(out1, FILE_NAME_ENTRY, fl.name)
                   ELSE out1
           frame == [file_index |-> fl.index, func_index |-> fn.index,
                     line_no |-> line.line_no, col_no |-> line.col_no]
       IN [function_cache |-> Put(st.function_cache, ip, frame),
           func_names |-> fn.names,
           file_names |-> fl.names,
           stream |-> out2,
           stack |-> Append(st.stack, frame)]

RECURSIVE process_frames(_, _, _)
process_frames(st, ips, i) ==
  IF i > Len(ips) THEN st
  ELSE process_frames(process_frame(st, ips[i]), ips, i + 1)

\* TraceData::process: the frames are resolved and the record is written
process_info(info) ==
  LET st == process_frames([function_cache |-> function_cache,
                            func_names |-> func_names,
                            file_names |-> file_names,
                            stream |-> stream,
                            stack |-> << >>], info.stack, 1)
  IN [st EXCEPT !.stream = write_trace_info(st.stream, info, st.stack)]

\* ThreadContext::get_stack_trace: a do-while over the frames of the chain;
\* unw_step is positive while an outer frame exists
RECURSIVE unw_loop(_, _, _)
unw_loop(chain, max_depth, stack) ==
  LET s == Append(stack, chain[Len(stack) + 1])
  IN IF Len(s) < Len(chain) /\ Len(s) < STACK_MAX /\ Len(s) < max_depth
     THEN unw_loop(chain, max_depth, s)
     ELSE s

get_stack_trace(chain, max_depth) == unw_loop(chain, max_depth, << >>)

dbgRest == << tracee, mem, maps,
              has_loading_libraries, doing_setup, loading_libraries, loaded_libraries,
              functions, breakpoints, breakpoint_min, breakpoint_max,
              breakpoints_mutex, threads, active_threads, pc, loc,
              child_tid_list, tid_relations, vec_end, stat_load >>

InitWorker ==
  /\ Init
  /\ mode = "spawn" /\ libPath = GoodLibPath
  /\ cloneKind = "thread" /\ ptraceScope = "tracer"

\* TraceData::start: the worker thread is created
start ==
  /\ owner = "constructed"
  /\ owner' = "running"
  /\ processor' = "init"
  /\ UNCHANGED << envVars, dbgRest, stat, zipVars, symVars, need_update_dwfl, mark_dirty, obsVars, stopped, queue, output, pushed >>

\* the worker's first statement: init_dwfl, which fails when dwfl_begin or
\* dwfl_linux_proc_attach fails
init_dwfl ==
  /\ processor = "init"
  /\ \E ok \in BOOLEAN :
       IF ok
       THEN need_update_dwfl' = TRUE /\ processor' = "loop"
       ELSE processor' = "exited" /\ UNCHANGED need_update_dwfl
  /\ UNCHANGED mark_dirty
  /\ UNCHANGED << envVars, dbgRest, stat, zipVars, symVars, obsVars, stopped, queue, output, pushed, owner >>

\* the condition of the worker's while loop
processor_loop ==
  /\ processor = "loop"
  /\ processor' = IF ~stopped \/ queue # << >> \/ need_update_dwfl THEN "body" ELSE "exited"
  /\ UNCHANGED << envVars, dbgRest, stat, zipVars, symVars, need_update_dwfl, mark_dirty, obsVars, stopped, queue, output,
                  pushed, owner >>

\* the test of need_update_dwfl at the head of the loop body
processor_body ==
  /\ processor = "body"
  /\ processor' = IF need_update_dwfl THEN "update" ELSE "queue"
  /\ UNCHANGED << envVars, dbgRest, stat, zipVars, symVars, need_update_dwfl, mark_dirty, obsVars, stopped, queue, output,
                  pushed, owner >>

\* update_dwfl up to dwfl_report_end: the mappings are reported and the
\* session holds the modules of the report; a failure returns with the flag
\* and the cache as they are
update_dwfl ==
  /\ processor = "update"
  /\ \E ok \in BOOLEAN :
       /\ processor' = IF ok THEN "refreshed" ELSE "queue"
       /\ mark_dirty' = (mark_dirty /\ ~ok)
       /\ \E mods \in (IF ok THEN ModuleSets ELSE PartialModuleSets) : dwfl' = mods
  /\ UNCHANGED << envVars, dbgRest, stat, zipVars, need_update_dwfl, mark_dirty, obsVars, stopped, queue, output,
                  pushed, owner, config, clock, trace_info, records, function_cache,
                  func_names, file_names, stream >>

\* update_dwfl from function_cache.clear() on: the flag is lowered
update_dwfl_end ==
  /\ processor = "refreshed"
  /\ function_cache' = << >>
  /\ need_update_dwfl' = FALSE
  /\ processor' = "queue"
  /\ UNCHANGED mark_dirty
  /\ UNCHANGED << envVars, dbgRest, stat, zipVars, obsVars, stopped, queue, output, pushed, owner,
                  config, clock, trace_info, records, dwfl, func_names, file_names,
                  stream >>

\* the rest of the loop body: sleep and continue on an empty queue, else pop
\* one record and process it (resolve and write)
process ==
  /\ processor = "queue"
  /\ IF queue = << >>
     THEN UNCHANGED << queue, output, function_cache, func_names, file_names, stream >>
     ELSE LET st == process_info(records[Head(queue)])
          IN /\ queue' = Tail(queue)
             /\ output' = Append(output, Head(queue))
             /\ function_cache' = st.function_cache
             /\ func_names' = st.func_names
             /\ file_names' = st.file_names
             /\ stream' = st.stream
  /\ processor' = "loop"
  /\ UNCHANGED << envVars, dbgRest, stat, zipVars, need_update_dwfl, mark_dirty, obsVars, stopped, pushed, owner,
                  config, clock, trace_info, records, dwfl >>

\* the add() calls that have read the clock and not yet returned
Adding == {t \in Tids : trace_info[t] # NoTraceInfo}

\* TraceData::add called by a hook of the supervisor of thread t, up to the
\* push: the TraceInfo is built with the clock's reading, and the stack is
\* collected for an invoke tag; a failing get_stack_trace returns false.
\* chains holds the call chains the thread can be stopped at.
add_getTime_from(t, chains) ==
  /\ owner = "running"
  /\ t \notin Adding
  /\ clock < MaxRecords
  /\ \E tag \in Tags, chain \in chains, ok \in BOOLEAN :
       /\ clock' = clock + 1
       /\ IF IsInvoke(tag) /\ config.isGetStackTrace
          THEN IF ok
               THEN trace_info' = [trace_info EXCEPT ![t] =
                      [tag |-> tag, tid |-> t, timestamp |-> clock',
                       stack |-> get_stack_trace(chain, config.maxStackTraceDepth)]]
               ELSE UNCHANGED trace_info
          ELSE trace_info' = [trace_info EXCEPT ![t] =
                 [tag |-> tag, tid |-> t, timestamp |-> clock', stack |-> << >>]]
  /\ UNCHANGED << envVars, dbgRest, stat, zipVars, need_update_dwfl, mark_dirty, obsVars, stopped, queue, processor,
                  output, pushed, owner, config, records, dwfl, function_cache,
                  func_names, file_names, stream >>

\* add() called at one of the call chains of the tracee's hooks
add_getTime(t) == add_getTime_from(t, CallChains)

\* TraceData::add with a push that puts the record in front of the queue
add_push_front(t) ==
  /\ t \in Adding
  /\ pushed' = pushed + 1
  /\ records' = Append(records, trace_info[t])
  /\ queue' = << pushed + 1 >> \o queue
  /\ trace_info' = [trace_info EXCEPT ![t] = NoTraceInfo]
  /\ UNCHANGED << envVars, dbgRest, stat, zipVars, need_update_dwfl, mark_dirty, obsVars, stopped, processor, output,
                  owner, config, clock, dwfl, function_cache, func_names, file_names,
                  stream >>

\* TraceData::add from queue.push on: the record is pushed, or dropped when
\* the push fails
add(t) ==
  /\ t \in Adding
  /\ \E ok \in BOOLEAN :
       IF ok
       THEN /\ pushed' = pushed + 1
            /\ records' = Append(records, trace_info[t])
            /\ queue' = Append(queue, pushed + 1)
       ELSE UNCHANGED << pushed, records, queue >>
  /\ trace_info' = [trace_info EXCEPT ![t] = NoTraceInfo]
  /\ UNCHANGED << envVars, dbgRest, stat, zipVars, need_update_dwfl, mark_dirty, obsVars, stopped, processor, output,
                  owner, config, clock, dwfl, function_cache, func_names, file_names,
                  stream >>

\* TraceData::on_library_loaded called by a supervisor
on_library_loaded ==
  /\ owner = "running"
  /\ need_update_dwfl' = TRUE
  /\ mark_dirty' = TRUE
  /\ UNCHANGED << envVars, dbgRest, stat, obsVars, wrkVars >>

\* the sum of the first n entries of a counter array
RECURSIVE SumTo(_, _)
SumTo(c, n) == IF n = 0 THEN 0 ELSE c[n] + SumTo(c, n - 1)

\* Tracer::gatherStat: the per-operation counters are added to invoke_count
\* and result_count, and the two to total_count
GatherStat(st) ==
  LET i == st.invoke_count + SumTo(st.op_invoke_count, Len(FunctionCallbacks))
      r == st.result_count + SumTo(st.op_result_count, Len(FunctionCallbacks))
  IN [st EXCEPT !.invoke_count = i, !.result_count = r, !.total_count = i + r]

\* no supervisor is in its loop
RunReturned == \A t \in Tids : pc[t] \in {"start", "none", "done", "failed"}

\* Tracer::run once Debugger::run has returned (the supervisors are joined, no
\* hook runs any more): gatherStat, and the statistics printed and saved
gatherStat ==
  /\ owner = "running"
  /\ Adding = {}
  /\ RunReturned
  /\ owner' = "saved"
  /\ stat' = GatherStat(stat)
  /\ UNCHANGED << envVars, dbgRest, zipVars, symVars, need_update_dwfl, mark_dirty, obsVars, stopped, queue, processor,
                  output, pushed >>

\* TraceData::stop, called by the destructor when the Tracer goes out of scope
\* after Tracer::run has returned: the flag, then the join
stop ==
  /\ owner = "saved"
  /\ stopped' = TRUE
  /\ owner' = "joining"
  /\ UNCHANGED << envVars, dbgRest, stat, zipVars, symVars, need_update_dwfl, mark_dirty, obsVars, queue, processor, output,
                  pushed >>

\* TraceData::stop: processor.join() has returned
stop_join ==
  /\ owner = "joining"
  /\ processor = "exited"
  /\ owner' = "stopped"
  /\ UNCHANGED << envVars, dbgRest, stat, zipVars, symVars, need_update_dwfl, mark_dirty, obsVars, stopped, queue, processor,
                  output, pushed >>

NextWorker ==
  \/ start
  \/ init_dwfl
  \/ processor_loop
  \/ processor_body
  \/ update_dwfl
  \/ update_dwfl_end
  \/ process
  \/ \E t \in Tids : add_getTime(t)
  \/ \E t \in Tids : add(t)
  \/ on_library_loaded
  \/ gatherStat
  \/ stop
  \/ stop_join

SpecWorker == InitWorker /\ [][NextWorker]_vars

\* The worker is a thread of its own and the owner's join returns once the
\* worker has ended: every step of the worker that is possible is eventually
\* taken, and so is the return of the join.  Nothing is assumed about the
\* outcome of a step (a refresh may fail every time).
WorkerFairness ==
  /\ WF_vars(init_dwfl)
  /\ WF_vars(processor_loop)
  /\ WF_vars(processor_body)
  /\ WF_vars(update_dwfl)
  /\ WF_vars(update_dwfl_end)
  /\ WF_vars(process)
  /\ WF_vars(stop_join)

SpecWorkerLive == InitWorker /\ [][NextWorker]_vars /\ WorkerFairness

\* ------------------------------------------------------------------------
\* The stack depth of the records: add() under every configuration the
\* options --no-stack and --stack <depth> produce, at shallow and deep call
\* chains
\* ------------------------------------------------------------------------
\* the depths given to --stack
Depths == {-1, 0, 1, 2, STACK_MAX, STACK_MAX + 1}

\* Config::parse: --no-stack clears isGetStackTrace; --stack d stores d and
\* sets isGetStackTrace to d >= 0
Configs ==
  {DefaultConfig, [DefaultConfig EXCEPT !.isGetStackTrace = FALSE]}
  \cup {[isGetStackTrace |-> d >= 0, maxStackTraceDepth |-> d] : d \in Depths}

\* call chains of 1, 3, STACK_MAX and STACK_MAX + 1 frames
DeepChains == {[i \in 1 .. n |-> 1] : n \in {1, 3, STACK_MAX, STACK_MAX + 1}}

InitUnwind ==
  /\ InitState
  /\ mode = "spawn" /\ libPath = GoodLibPath
  /\ cloneKind = "thread" /\ ptraceScope = "tracer"
  /\ config \in Configs

NextUnwind ==
  \/ start
  \/ \E t \in Tids : add_getTime_from(t, DeepChains)
  \/ \E t \in Tids : add(t)

SpecUnwind == InitUnwind /\ [][NextUnwind]_vars

\* ------------------------------------------------------------------------
\* Two supervisors in trace_new_thread at the same time: a tracee whose two
\* threads (the second created by the first) each call clone.  add_new_tid
\* takes no lock, so the push_back calls of the two supervisors on the
\* vectors of StatInfo are steps that interleave: each reads the end of the
\* vector and then stores the element there.
\* ------------------------------------------------------------------------
\* the tid PTRACE_GETEVENTMSG reports for the clone of thread p
EventMsg(p) == p + Cardinality(Tids)

Children == {EventMsg(p) : p \in Tids}

\* std::vector::push_back once the end has been read: the element is stored
\* at that end and the vector ends behind it
push_back(v, end, x) == Append(SubSeq(v, 1, end), x)

InitNewTid ==
  /\ InitOther
  /\ mode = "spawn" /\ libPath = GoodLibPath
  /\ cloneKind = "thread" /\ ptraceScope = "tracer"
  /\ config = DefaultConfig
  /\ tracee = [t \in Tids |->
                 [NoThread EXCEPT !.st = "stopped", !.traced = TRUE, !.rip = WorkStart,
                                  !.ws = "clone", !.as = 1]]
  /\ threads = [t \in Tids |-> ThreadData]
  /\ active_threads = Cardinality(Tids)
  /\ pc = [t \in Tids \cup Children |-> IF t \in Tids THEN "wait" ELSE "none"]
  /\ child_tid_list = << new_child >>
  /\ tid_relations = << << target_pid, new_child >> >>
  /\ vec_end = [t \in Tids |-> 0]
  /\ stat = ZeroStat
  /\ stat_load = [t \in Tids |-> NoLoad]

newTidRest == << envVars, mem, maps, sysStops, libVars, tabVars, breakpoints_mutex, loc,
                need_update_dwfl, mark_dirty, events, sysEvents, cntVars, wrkVars >>

\* trace_new_thread at the event-stop of p's clone: PTRACE_GETEVENTMSG, and
\* add_new_tid's first push_back reads the end of child_tid_list
add_new_tid_child_end(p) ==
  /\ pc[p] = "wait"
  /\ tracee[p].ws = "clone"
  /\ tracee' = [tracee EXCEPT ![p].ws = "none"]
  /\ vec_end' = [vec_end EXCEPT ![p] = Len(child_tid_list)]
  /\ UNCHANGED << stat, stat_load >>
  /\ pc' = [pc EXCEPT ![p] = "child_store"]
  /\ UNCHANGED << newTidRest, threads, active_threads, child_tid_list, tid_relations >>

\* child_tid_list.push_back(child) stores
add_new_tid_child_store(p) ==
  /\ pc[p] = "child_store"
  /\ child_tid_list' = push_back(child_tid_list, vec_end[p], EventMsg(p))
  /\ pc' = [pc EXCEPT ![p] = "relation_end"]
  /\ UNCHANGED << newTidRest, tracee, threads, active_threads, tid_relations, vec_end, stat, stat_load >>

\* tid_relations.push_back reads the end
add_new_tid_relation_end(p) ==
  /\ pc[p] = "relation_end"
  /\ vec_end' = [vec_end EXCEPT ![p] = Len(tid_relations)]
  /\ UNCHANGED << stat, stat_load >>
  /\ pc' = [pc EXCEPT ![p] = "relation_store"]
  /\ UNCHANGED << newTidRest, tracee, threads, active_threads, child_tid_list,
                  tid_relations >>

\* tid_relations.push_back(std::pair(parent, child)) stores
add_new_tid_relation_store(p) ==
  /\ pc[p] = "relation_store"
  /\ tid_relations' = push_back(tid_relations, vec_end[p], << p, EventMsg(p) >>)
  /\ pc' = [pc EXCEPT ![p] = "newthread"]
  /\ UNCHANGED << newTidRest, tracee, threads, active_threads, child_tid_list, vec_end, stat, stat_load >>

\* trace_new_thread after add_new_tid: the child is waited for and detached,
\* add_thread creates its ThreadData under the unique lock, and its
\* supervisor is started
new_thread_supervisor(p) ==
  /\ pc[p] = "newthread"
  /\ threads' = add_thread(threads, EventMsg(p))
  /\ active_threads' = active_threads + 1
  /\ pc' = [pc EXCEPT ![p] = "bp", ![EventMsg(p)] = "attach"]
  /\ UNCHANGED << newTidRest, tracee, child_tid_list, tid_relations, vec_end, stat, stat_load >>

NextNewTid ==
  \E p \in Tids :
    \/ add_new_tid_child_end(p)
    \/ add_new_tid_child_store(p)
    \/ add_new_tid_relation_end(p)
    \/ add_new_tid_relation_store(p)
    \/ new_thread_supervisor(p)

SpecNewTid == InitNewTid /\ [][NextNewTid]_vars

\* ------------------------------------------------------------------------
\* The compressed sink: Zip::Stream::ofstream with its ostreambuf, as
\* TraceData::start creates it, TraceData::write fills it (from the worker
\* only) and the release of the TraceData object destroys it.  The file
\* holds what the compressor emits: per frame a header, the bytes, and an
\* epilogue.
\* ------------------------------------------------------------------------
\* ZSTD_CStreamInSize(), the size of inbuf_
InSize == 2

Bytes == {1, 2}

Header == << "header", 0 >>
Epilogue == << "epilogue", 0 >>
Data(b) == << "data", b >>

\* the ostreambuf and the file behind it
Sink == [sbuf_ |-> sbuf_, inbuf_ |-> inbuf_, inhint_ |-> inhint_,
         strInit_ |-> strInit_, strm_ |-> strm_, ret |-> 0]

SetSink(S) ==
  /\ sbuf_' = S.sbuf_
  /\ inbuf_' = S.inbuf_
  /\ inhint_' = S.inhint_
  /\ strInit_' = S.strInit_
  /\ strm_' = S.strm_

\* sbuf_->sputn on the file stream: a closed file takes nothing
sputn(S, out) ==
  IF out = << >> THEN S
  ELSE IF fs_ = "open" THEN [S EXCEPT !.sbuf_ = @ \o out]
  ELSE [S EXCEPT !.ret = -1]

\* ZSTD_compressStream: the input is taken in, and the first k bytes held are
\* emitted, behind the frame header if it has not been emitted yet
ZSTD_compressStream(z, input, k) ==
  LET held == z.held \o input
      n == IF k < Len(held) THEN k ELSE Len(held)
  IN [strm_ |-> [held |-> SubSeq(held, n + 1, Len(held)), header |-> z.header \/ n > 0],
      out |-> IF n = 0 THEN << >>
              ELSE (IF z.header THEN << >> ELSE << Header >>)
                   \o [i \in 1 .. n |-> Data(held[i])]]

\* ZSTD_endStream, called until it returns 0: what is held is emitted and the
\* frame is ended by its epilogue
ZSTD_endStream(z) ==
  (IF z.header THEN << >> ELSE << Header >>)
  \o [i \in 1 .. Len(z.held) |-> Data(z.held[i])] \o << Epilogue >>

\* ostreambuf::compress: the session is initialised if none is, the put area
\* is compressed; hint is the next input size the compressor asks for
compress(S, k, hint) ==
  LET z == IF S.strInit_ THEN S.strm_ ELSE NoSession
      r == ZSTD_compressStream(z, S.inbuf_, k)
  IN IF S.inbuf_ = << >>
     THEN [S EXCEPT !.strInit_ = TRUE, !.strm_ = z]
     ELSE sputn([S EXCEPT !.strInit_ = TRUE, !.strm_ = r.strm_, !.inhint_ = hint], r.out)

\* ostreambuf::overflow(eof): the put area is compressed and emptied
overflow(S, k, hint) == [compress(S, k, hint) EXCEPT !.inbuf_ = << >>]

\* ostreambuf::sync without the loop that ends the frame
sync_no_end(S, k, hint) == overflow(S, k, hint)

\* ostreambuf::sync: overflow, then the frame is ended and written
sync(S, k, hint) ==
  LET o == overflow(S, k, hint)
  IN IF o.ret < 0 \/ ~o.strInit_ THEN [o EXCEPT !.ret = -1]
     ELSE sputn([o EXCEPT !.strInit_ = FALSE, !.strm_ = NoSession],
                ZSTD_endStream(o.strm_))

\* the frames the file holds so far
NumFrames == Cardinality({i \in 1 .. Len(sbuf_) : sbuf_[i] = Epilogue})

\* Zip::Stream::CreateFile: the file is opened and the ostreambuf constructed
CreateFile ==
  /\ owner = "constructed" /\ rdbuf = "none"
  /\ rdbuf' = "alive"
  /\ fs_' = "open"
  /\ inhint_' = InSize
  /\ UNCHANGED << envVars, dbgVars, obsVars, stopped, queue, processor, output, pushed,
                  owner, symVars, sbuf_, inbuf_, strInit_, strm_, written >>

\* one byte of std::ostream::write: it goes to the put area, through
\* overflow(ch) when the area is full
sputc ==
  /\ rdbuf = "alive" /\ fs_ = "open"
  /\ Len(written) < MaxBytes
  /\ \E ch \in Bytes :
       /\ written' = Append(written, ch)
       /\ IF Len(inbuf_) < inhint_
          THEN SetSink([Sink EXCEPT !.inbuf_ = Append(@, ch)])
          ELSE \E k \in 0 .. MaxBytes, hint \in 1 .. InSize :
                 SetSink([overflow(Sink, k, hint) EXCEPT !.inbuf_ = << ch >>])
  /\ UNCHANGED << envVars, dbgVars, obsVars, stopped, queue, processor, output, pushed,
                  owner, symVars, rdbuf, fs_ >>

\* std::ostream::flush: pubsync
flush ==
  /\ rdbuf = "alive" /\ fs_ = "open"
  /\ NumFrames < MaxFrames
  /\ \E k \in 0 .. MaxBytes, hint \in 1 .. InSize : SetSink(sync(Sink, k, hint))
  /\ UNCHANGED << envVars, dbgVars, obsVars, stopped, queue, processor, output, pushed,
                  owner, symVars, rdbuf, fs_, written >>

\* ofstream::close: flush, and the file is closed
close ==
  /\ rdbuf = "alive" /\ fs_ = "open"
  /\ NumFrames < MaxFrames
  /\ \E k \in 0 .. MaxBytes, hint \in 1 .. InSize : SetSink(sync(Sink, k, hint))
  /\ fs_' = "closed"
  /\ UNCHANGED << envVars, dbgVars, obsVars, stopped, queue, processor, output, pushed,
                  owner, symVars, rdbuf, written >>

\* the release of the stream (the TraceData object is destroyed after stop()
\* has joined the worker): ~ofstream deletes the ostreambuf, whose destructor
\* calls sync; the file stream is destroyed after it
delete_rdbuf ==
  /\ rdbuf = "alive"
  /\ \E k \in 0 .. MaxBytes, hint \in 1 .. InSize : SetSink(sync(Sink, k, hint))
  /\ rdbuf' = "deleted"
  /\ fs_' = "closed"
  /\ UNCHANGED << envVars, dbgVars, obsVars, stopped, queue, processor, output, pushed,
                  owner, symVars, written >>

NextSink ==
  \/ CreateFile
  \/ sputc
  \/ flush
  \/ close
  \/ delete_rdbuf

SpecSink == InitWorker /\ [][NextSink]_vars

\* ------------------------------------------------------------------------
\* The counters of StatInfo: two supervisors in their loops dispatch function
\* hooks.  A hook runs before resume_thread_breakpoint takes the breakpoint
\* lock (debugger.h:389-391), so the hooks of two supervisors run at the same
\* time, and Tracer::invoke and Tracer::result increment a plain int: the ++
\* is a load and a store that interleave with those of the other supervisor.
\* ------------------------------------------------------------------------
\* the largest value the stack holds where a counter lies
MaxStackValue == 1

\* the values the stack can hold where a counter lies
StackValues == 0 .. MaxStackValue

\* StatInfo as the default-initialised local of main holds it
StackStats ==
  { [ZeroStat EXCEPT !.op_invoke_count = i, !.op_result_count = r,
                     !.invoke_count = ic, !.result_count = rc] :
      i \in [FnIdx -> StackValues], r \in [FnIdx -> StackValues],
      ic \in StackValues, rc \in StackValues }

InitStat ==
  /\ InitOther
  /\ mode = "spawn" /\ libPath = GoodLibPath
  /\ cloneKind = "thread" /\ ptraceScope = "tracer"
  /\ maps = InitMaps
  /\ config = DefaultConfig
  /\ tracee = [t \in Tids |->
                 [NoThread EXCEPT !.st = "stopped", !.traced = TRUE, !.rip = WorkStart,
                                  !.as = 1]]
  /\ threads = [t \in Tids |-> ThreadData]
  /\ active_threads = Cardinality(Tids) - 1
  /\ pc = [t \in Tids |-> "wait"]
  /\ child_tid_list = << new_child >>
  /\ tid_relations = << << target_pid, new_child >> >>
  /\ vec_end = [t \in Tids |-> 0]
  /\ stat \in StackStats
  /\ stat_load = [t \in Tids |-> NoLoad]

statRest == << envVars, kernVars, libVars, tabVars, breakpoints_mutex, threads, loc,
               child_tid_list, tid_relations, vec_end, need_update_dwfl, mark_dirty,
               sysEvents, cntVars, wrkVars >>

\* the counter that Tracer::invoke or Tracer::result increments for a hook
Counter(st, kind, op) ==
  IF kind = "invoke" THEN st.op_invoke_count[op] ELSE st.op_result_count[op]

\* the supervisor of t dispatches a hook of function f (trace_breakpoint's
\* process lambda): Tracer::invoke or Tracer::result loads the counter
stat_count_load(t) ==
  /\ owner = "running"
  /\ pc[t] = "wait"
  /\ Len(events[t]) < MaxCalls
  /\ \E f \in FnIdx, kind \in {"invoke", "result"} :
       /\ FunctionCallbacks[f][kind]
       /\ events' = [events EXCEPT ![t] = Append(events[t], [kind |-> kind, f |-> f])]
       /\ stat_load' = [stat_load EXCEPT ![t] =
                          [kind |-> kind, op |-> f, val |-> Counter(stat, kind, f)]]
  /\ pc' = [pc EXCEPT ![t] = "count"]
  /\ UNCHANGED << statRest, active_threads, stat >>

\* the store of the ++: the loaded value plus one
stat_count_store(t) ==
  /\ pc[t] = "count"
  /\ LET l == stat_load[t]
     IN stat' = IF l.kind = "invoke"
                THEN [stat EXCEPT !.op_invoke_count[l.op] = l.val + 1]
                ELSE [stat EXCEPT !.op_result_count[l.op] = l.val + 1]
  /\ stat_load' = [stat_load EXCEPT ![t] = NoLoad]
  /\ pc' = [pc EXCEPT ![t] = "wait"]
  /\ UNCHANGED << statRest, active_threads, events >>

\* the thread of t has exited: trace_thread returns, the lambda of a child
\* decrements active_threads
trace_thread_return(t) ==
  /\ pc[t] = "wait"
  /\ pc' = [pc EXCEPT ![t] = "done"]
  /\ active_threads' = IF t = target_pid THEN active_threads ELSE active_threads - 1
  /\ UNCHANGED << statRest, stat, stat_load, events >>

NextStat ==
  \/ start
  \/ \E t \in Tids : stat_count_load(t)
  \/ \E t \in Tids : stat_count_store(t)
  \/ \E t \in Tids : trace_thread_return(t)
  \/ gatherStat

SpecStat == InitStat /\ [][NextStat]_vars

\* ------------------------------------------------------------------------
\* Properties of the Debugger
\* ------------------------------------------------------------------------
\* the kernel as Linux implements it (see the head of the module)
RealKernel == ptraceScope = "tracer"

\* the hook calls of function f dispatched for thread t, in order
HooksOf(t, f) == SelectSeq(events[t], LAMBDA e : e.f = f)

\* the hook calls of syscall slot i dispatched for thread t, in order
SlotHooks(t, i) == SelectSeq(sysEvents[t], LAMBDA e : e.slot = i)

NumKind(s, kind) == Len(SelectSeq(s, LAMBDA e : e.kind = kind))

\* invoke, result, invoke, ... starting with invoke
Alternates(s) ==
  \A k \in 1 .. Len(s) : s[k].kind = (IF k % 2 = 1 THEN "invoke" ELSE "result")

\* the run of the tracer is over
Completed == pc[target_pid] = "done"

\* the supervisor of t has a step-over of address a in progress: the original
\* byte is back in memory and the breakpoint lock is its own
SteppingOver(t, a) == pc[t] = "step" /\ loc[t].addr = a /\ breakpoints_mutex = t

\* C1: once the entry breakpoint of a hooked function is installed, every
\* execution of the entry address by a thread has produced exactly one invoke
\* event of that function on that thread, as soon as no trap of the thread is
\* waiting for its supervisor.
C1_EveryEntryTraced ==
  RealKernel =>
    \A t \in Tids, f \in FnIdx :
      tracee[t].ws # "trap" => NumKind(HooksOf(t, f), "invoke") = execs[t][f]

\* C2: for every thread and every return-tracked function the invoke and
\* result events alternate strictly, starting with invoke, and over a
\* completed run there are as many invoke events as result events.
C2_InvokeResultPaired ==
  RealKernel =>
    \A t \in Tids, f \in FnIdx :
      FunctionCallbacks[f].result =>
        /\ Alternates(HooksOf(t, f))
        /\ Completed => NumKind(HooksOf(t, f), "invoke") = NumKind(HooksOf(t, f), "result")

\* C3: for every thread and every syscall-hook slot the in-flight flag starts
\* false and is toggled by every syscall-stop of the thread that matches the
\* slot; the invoke hook runs when the flag was false, the result hook when it
\* was true, so the hook calls of the slot alternate, starting with invoke.
\* (The flag is raised exactly after an odd number of hook calls; the hook
\* calls are as many as the matching syscall-stops once the supervisor has
\* handled the stop; a supervisor that has left its loop handles no stop.)
C3_SyscallHooksAlternate ==
  \A t \in DOMAIN threads, i \in SysIdx :
    /\ Alternates(SlotHooks(t, i))
    /\ threads[t].syscalls[i] = (Len(SlotHooks(t, i)) % 2 = 1)
    /\ (RealKernel /\ tracee[t].ws # "sys" /\ pc[t] \notin {"scan", "load", "syscall", "failed"})
         => Len(SlotHooks(t, i)) = sysStops[t][i]

\* a thread whose mmap and clone system calls have both been seen at their
\* entry and exit stops
C3_Witness ==
  /\ RealKernel
  /\ \E t \in DOMAIN threads :
       /\ Len(SlotHooks(t, 1)) = 2
       /\ Len(SlotHooks(t, 3)) = 2
       /\ sysStops[t][3] = 2

\* C4: while a step-over has the original byte restored, no other known
\* thread of the same address space is running in the tracee.
C4_OthersStoppedDuringStepOver ==
  RealKernel =>
    \A t \in Tids : pc[t] = "step" =>
      \A o \in (DOMAIN threads) \ {t} :
        tracee[o].as = tracee[t].as => tracee[o].st # "running"

\* a step changes a byte of tracee memory (the copy a fork makes and the
\* bytes a mapping of the kernel brings in are no writes of the tracer)
BreakpointWrite ==
  /\ mem' # mem
  /\ ~(tracee[new_child].st = "none" /\ tracee'[new_child].st # "none")
  /\ ~(\E t \in Tids : /\ pc[t] = "syscall" /\ pc'[t] = "wait"
                        /\ tracee[t].kp = "entry" /\ Nr(tracee[t].rip - 1) = "mmap")

\* the step is one of the holder of the breakpoint lock, or of an operation
\* that takes the free lock for its whole duration
WriterHoldsLock ==
  \/ breakpoints_mutex = 0
  \/ pc'[breakpoints_mutex] # pc[breakpoints_mutex]

\* the addresses whose step-over has the original byte restored
Disarmed == { loc[t].addr : t \in { u \in Tids : pc[u] = "step" } }

\* C5: every write of a breakpoint byte (insert, disarm, re-arm, re-arm after a
\* remap) happens with the breakpoint lock held exclusively by the writer, and
\* step-overs never overlap: at most one address is disarmed at any time, by
\* the holder of the lock.
C5_WritesUnderLock ==
  /\ [](/\ Cardinality(Disarmed) <= 1
        /\ \A t \in Tids : pc[t] \in {"pause", "pausewait", "disable", "step"}
                             => breakpoints_mutex = t)
  /\ [][BreakpointWrite => WriterHoldsLock]_vars

\* a step-over in progress while the supervisor of another thread is at a
\* breakpoint of its own and waits for the lock
C5_Witness ==
  \E t \in Tids, u \in Tids :
    /\ t # u
    /\ pc[t] = "step"
    /\ pc[u] \in {"addret", "steplock"}

\* C6: every address of the breakpoint table holds the trap byte in the memory
\* of every live tracee, except while a step-over of that address is in
\* progress under the breakpoint lock.
C6_TableAddressesArmed ==
  RealKernel =>
    \A a \in DOMAIN breakpoints, t \in Tids :
      tracee[t].st \in {"running", "stopped"} =>
        \/ mem[tracee[t].as][a] % 256 = INT3
        \/ \E u \in Tids : SteppingOver(u, a)

\* C7: a shared object mapped after startup by a tracee that goes on making
\* system calls has, by the end of the run, a breakpoint at base + st_value
\* bound to the hook's index for every hooked function of its dynamic symbols.
C7_MappedLibraryInstrumented ==
  (mode = "spawn" /\ Completed) =>
    \A i \in FnIdx :
      /\ SymAddr(i) \in DOMAIN breakpoints
      /\ SymAddr(i) \in DOMAIN functions
      /\ functions[SymAddr(i)] = i

\* C8: in attach mode the calls of the traced main thread to a hooked function
\* of the library that was mapped before the attach are traced, although the
\* tracee maps no other shared object.
C8_AlreadyMappedTraced ==
  (mode = "attach" /\ Completed) =>
    \A f \in FnIdx : NumKind(HooksOf(target_pid, f), "invoke") = calls[target_pid][f]

\* C9: in attach mode every thread that exists at attach time has a
\* per-thread context and a supervisor once the tracer runs.
C9_EveryThreadAttached ==
  (mode = "attach" /\ pc[target_pid] # "start") =>
    \A t \in Tids : t \in DOMAIN threads /\ pc[t] # "none"

\* ------------------------------------------------------------------------
\* Properties of TraceData
\* ------------------------------------------------------------------------
\* C10: when the worker has exited, every record pushed has been popped and
\* written exactly once, in order, the stop flag is set, the queue is empty
\* and no refresh is pending.
C10_DrainedBeforeExit ==
  processor = "exited" =>
    /\ stopped
    /\ queue = << >>
    /\ ~need_update_dwfl
    /\ output = [k \in 1 .. pushed |-> k]

\* C11: once stop() has set the stop flag, the worker eventually terminates
\* and stop() returns, whatever the dirty flag holds and however the refresh
\* attempts end.
C11_StopReturns == stopped ~> (processor = "exited" /\ owner = "stopped")

\* C12: the statistics are gathered and written only after the record store
\* has been stopped: when they are written the stop flag is set and the worker
\* has drained the queue and exited.
C12_StatisticsAfterStop ==
  owner = "saved" => (stopped /\ processor = "exited" /\ queue = << >>)

\* ---- the stream as a reader sees it
IsNameEntry(e) == e.tag \in {FILE_NAME_ENTRY, FUNC_NAME_ENTRY}

\* the positions of the name entries of a marker, in stream order
NamePositions(marker) == {k \in 1 .. Len(stream) : stream[k].tag = marker}

\* the positions of the event records
EventPositions == {k \in 1 .. Len(stream) : ~IsNameEntry(stream[k])}

\* index i of a marker space is defined before position k: the stream holds
\* more than i name entries of that marker in front of k
DefinedBefore(marker, i, k) ==
  Cardinality({j \in NamePositions(marker) : j < k}) > i

\* C13: for every event record of the stream and every frame of it, the
\* frames of unknown modules included, a file-name entry defining the frame's
\* file_index and a function-name entry defining its func_index stand earlier
\* in the stream than the event record.
C13_FramingPrecedesEvent ==
  \A k \in EventPositions :
    \A i \in 1 .. stream[k].stack_size :
      /\ DefinedBefore(FILE_NAME_ENTRY, stream[k].stack[i].file_index, k)
      /\ DefinedBefore(FUNC_NAME_ENTRY, stream[k].stack[i].func_index, k)


\* the name set_name_index works on
Interned(name) == IF name = NULL THEN "<nil>" ELSE name

\* the k-th event record of the stream, and the record it was written from
EventAt(k) == stream[CHOOSE p \in EventPositions :
                       Cardinality({q \in EventPositions : q <= p}) = k]
NumEvents == Cardinality(EventPositions)

\* the names of the entries of a marker
EntryNames(marker) == {stream[k].name : k \in NamePositions(marker)}

\* one entry per name in the marker space
OneEntryPerName(marker, names) ==
  /\ \A j, k \in NamePositions(marker) : stream[j].name = stream[k].name => j = k
  /\ EntryNames(marker) = DOMAIN names

\* every resolved frame of every event carries the index the table holds for
\* the names of its address
SameIndexEveryTime ==
  \A k \in 1 .. NumEvents :
    \A i \in 1 .. EventAt(k).stack_size :
      LET frame == EventAt(k).stack[i]
          ip == records[output[k]].stack[i]
      IN frame # ZeroFunctionInfo =>
           /\ frame.func_index = func_names[Interned(dwfl_module_addrname(ip))]
           /\ frame.file_index = file_names[Interned(dwfl_lineinfo(ip).file_name)]

DenseInOrder(marker, names) ==
  /\ EntryNames(marker) = DOMAIN names
  /\ \A k \in NamePositions(marker) :
       names[stream[k].name] = Cardinality({j \in NamePositions(marker) : j < k})
  /\ {names[n] : n \in DOMAIN names} = 0 .. (size(names) - 1)

\* a step keeps every name and its index
NamesKept(names, namesAfter) ==
  \A n \in DOMAIN names : n \in DOMAIN namesAfter /\ namesAfter[n] = names[n]

\* C15: the n distinct names of a table have exactly the indices 0 .. n-1 in
\* the order of their first use, which is the order of their name entries in
\* the stream; an index once assigned never changes and no name is removed.
C15_DenseStableIndices ==
  /\ [](DenseInOrder(FUNC_NAME_ENTRY, func_names)
        /\ DenseInOrder(FILE_NAME_ENTRY, file_names))
  /\ [][NamesKept(func_names, func_names') /\ NamesKept(file_names, file_names')]_vars

\* all three function names and both file names are interned
C15_Witness ==
  /\ size(func_names) = 3
  /\ size(file_names) = 2
  /\ func_names["malloc"] > 0


\* C16: the event records of one thread stand in the stream in the order in
\* which the thread's hooks called add (the order of the clock readings and
\* of the pushes), with non-decreasing timestamps: neither the queue nor the
\* worker reorders two records of the same thread.
C16_PerThreadOrder ==
  \A j, k \in 1 .. NumEvents :
    (j < k /\ EventAt(j).tid = EventAt(k).tid) =>
      /\ output[j] < output[k]
      /\ EventAt(j).timestamp <= EventAt(k).timestamp
      /\ EventAt(j).timestamp = records[output[j]].timestamp
      /\ EventAt(k).timestamp = records[output[k]].timestamp

\* two records of one thread, built at different clock readings, have been
\* written
C16_Witness ==
  /\ NumEvents = 2
  /\ EventAt(1).tid = EventAt(2).tid
  /\ EventAt(1).timestamp < EventAt(2).timestamp


\* C17: every event record has a stack depth of at most 100 and at most the
\* configured depth cap d, for every cap d >= 0, d = 0 included; a record of
\* the result phase has depth 0.
C17_DepthCapped ==
  \A k \in 1 .. Len(records) :
    /\ Len(records[k].stack) <= STACK_MAX
    /\ config.maxStackTraceDepth >= 0 =>
         Len(records[k].stack) <= config.maxStackTraceDepth
    /\ ~IsInvoke(records[k].tag) => Len(records[k].stack) = 0


\* ---- entry-only functions
\* the index of free, which is registered without a result hook
FreeIdx == CHOOSE i \in FnIdx : FunctionCallbacks[i].name = "free"

\* the return addresses of the calls of free in the text
FreeReturnSites ==
  {a + 1 : a \in {b \in Addr : Text[b].op = "call" /\ Text[b].to = SymAddr(FreeIdx)}}

\* thread t's supervisor handles a trap on the entry breakpoint of free
AtFreeEntry(t) ==
  /\ (tracee[t].rip - 1) \in DOMAIN functions
  /\ functions[tracee[t].rip - 1] = FreeIdx

\* C18: for an entry-only function (free), the handling of a hit of its entry
\* breakpoint emits one invoke event, pushes nothing on the thread's
\* return-breakpoint stack and installs no return breakpoint; no result event
\* of free is ever emitted, no stack ever holds an entry of free and no
\* return address of a call of free ever carries a breakpoint.
C18_EntryOnlyNoResult ==
  /\ [](\A t \in Tids :
          /\ NumKind(HooksOf(t, FreeIdx), "result") = 0
          /\ t \in DOMAIN threads =>
               \A k \in 1 .. Len(threads[t].stack) :
                 threads[t].stack[k].function_index # FreeIdx)
  /\ [](FreeReturnSites \cap DOMAIN breakpoints = {})
  /\ [][\A t \in Tids :
          (trace_breakpoint(t) /\ AtFreeEntry(t)) =>
            /\ events'[t] = Append(events[t], [kind |-> "invoke", f |-> FreeIdx])
            /\ threads'[t].stack = threads[t].stack
            /\ breakpoints' = breakpoints
            /\ pc'[t] = "steplock"]_vars

\* a thread has run through a call of free: the invoke hook was dispatched
\* and the thread has returned to the call's return address and beyond
C18_Witness ==
  \E t \in Tids :
    /\ NumKind(HooksOf(t, FreeIdx), "invoke") >= 1
    /\ Completed


\* the number of places of a vector that hold x
Count(v, x) == Cardinality({k \in 1 .. Len(v) : v[k] = x})

\* C19: for every clone event-stop the supervisor of thread p has handled
\* and that reported the new tid c: c stands in the child-tid list and (p, c)
\* in tid_relations exactly once, c has its per-thread data before its
\* supervisor handles a stop, and one supervisor was started for c.
C19_NewTidRecordedOnce ==
  \A p \in Tids :
    pc[p] \in {"newthread", "bp"} =>
      /\ Count(child_tid_list, EventMsg(p)) = 1
      /\ Count(tid_relations, << p, EventMsg(p) >>) = 1
      /\ pc[p] = "bp" => (pc[EventMsg(p)] = "attach" /\ EventMsg(p) \in DOMAIN threads)


\* ---- the file as a reader of frames sees it
\* the tokens of the file read from the left: whether they are well framed,
\* whether a frame is open at the end, and the bytes of the completed frames
RECURSIVE Parse(_, _, _, _)
Parse(f, i, inFrame, acc) ==
  IF i > Len(f)
  THEN [ok |-> TRUE, inFrame |-> inFrame, done |-> acc.done]
  ELSE IF f[i] = Header
  THEN IF inFrame THEN [ok |-> FALSE, inFrame |-> inFrame, done |-> acc.done]
       ELSE Parse(f, i + 1, TRUE, [acc EXCEPT !.cur = << >>])
  ELSE IF f[i] = Epilogue
  THEN IF ~inFrame THEN [ok |-> FALSE, inFrame |-> inFrame, done |-> acc.done]
       ELSE Parse(f, i + 1, FALSE, [done |-> acc.done \o acc.cur, cur |-> << >>])
  ELSE IF ~inFrame THEN [ok |-> FALSE, inFrame |-> inFrame, done |-> acc.done]
       ELSE Parse(f, i + 1, TRUE, [acc EXCEPT !.cur = Append(@, f[i][2])])

Frames(f) == Parse(f, 1, FALSE, [done |-> << >>, cur |-> << >>])

\* the file ends on a frame boundary and its frames hold exactly the bytes
EndsCleanlyWith(f, bytes) ==
  /\ Frames(f).ok
  /\ ~Frames(f).inFrame
  /\ Frames(f).done = bytes

ScanEnds(t) == pc[t] = "scan" /\ loc[t].scan = << >>

\* every mapped file has been taken by the scan, and the hooked functions of
\* the files that parse have their breakpoints
ScanComplete ==
  /\ \A e \in maps : e.path \in loaded_libraries
  /\ \A e \in maps : get_function_offset(e.path) =>
       \A k \in 1 .. Len(Dynsym(e.path)) :
         Dynsym(e.path)[k].st_value # 0 =>
           (e.base + Dynsym(e.path)[k].st_value) \in DOMAIN functions

\* C21: when the ELF parsing of one mapped file fails during a scan, the file
\* is skipped: the other entries of the same scan are processed, and at the
\* end of the scan the supervisor goes on with the stop it is handling instead
\* of leaving its loop.
C21_ParseFailureSkipped ==
  [][\A t \in Tids :
       (ScanEnds(t) /\ ~loc[t].result /\ pc'[t] # pc[t])
         => (ScanComplete /\ pc'[t] = "syscall")]_vars

\* the worker has returned from its thread function without the stop flag:
\* init_dwfl has failed (the loop is left only with the flag set)
WorkerFailed == processor = "exited" /\ ~stopped

\* C22: once the worker has exited because it could not initialise, the
\* supervisors notice it: no hook starts handing a further record to the
\* store, where it would stay in the queue for ever.
C22_NoRecordsAfterFailedInit ==
  [][WorkerFailed => Adding' \subseteq Adding]_vars

\* thread t has been resumed by its supervisor: it runs, or it has stopped
\* again with a status its supervisor has not reaped yet
Continued(w, t) == w[t].st = "running" \/ w[t].ws # "none"

\* C23: when the single step of a step-over fails, the engine does not abandon
\* the thread: the thread is continued and its supervisor goes back to waiting
\* for the thread's next stop.
C23_FailedStepKeepsThread ==
  [][\A t \in Tids :
       resume_breakpoint_refused(t) => (pc'[t] = "wait" /\ Continued(tracee', t))]_vars

\* the supervisor of t starts to handle a syscall-stop of t
SyscallStopTaken(t) == pc[t] = "wait" /\ tracee[t].ws = "sys" /\ pc'[t] # "wait"

\* the supervisor of t is about to run trace_syscall
EntersTraceSyscall(t) == pc[t] # "syscall" /\ pc'[t] = "syscall"

\* C24 as stated: trace_syscall runs only for a syscall-stop at which no
\* library was pending; at a stop with a library pending setup_breakpoint runs
\* instead of it.
C24_SyscallOnlyWithoutPending ==
  [][\A t \in Tids :
       EntersTraceSyscall(t) => (pc[t] = "wait" /\ ~has_loading_libraries)]_vars

\* C24, amended: at a syscall-stop with a library pending the supervisor calls
\* setup_breakpoint first (its test_and_set, and the scan when the flag was
\* set), and unless the scan has failed trace_syscall runs for the same stop;
\* with no library pending trace_syscall runs at once and setup_breakpoint is
\* not called.
C24_SetupThenSyscall ==
  [][\A t \in Tids :
       /\ SyscallStopTaken(t) =>
            IF has_loading_libraries
            THEN IF doing_setup THEN pc'[t] = "scan"
                 ELSE pc'[t] = "syscall" /\ doing_setup'
            ELSE pc'[t] = "syscall" /\ doing_setup' = doing_setup
       /\ (ScanEnds(t) /\ loc[t].result /\ pc'[t] # pc[t]) => pc'[t] = "syscall"]_vars

\* trace_syscall is about to run for the entry stop of clone, after the scan
\* that the same stop has started found the library and set its breakpoints
C24_Witness ==
  \E t \in Tids :
    /\ pc[t] = "syscall"
    /\ Nr(tracee[t].rip - 1) = "clone"
    /\ ~threads[t].syscalls[3]
    /\ libPath \in loaded_libraries
    /\ ~has_loading_libraries
    /\ ~doing_setup
    /\ SymAddr(2) \in DOMAIN breakpoints

\* the supervisors inside the body of setup_breakpoint (the scan of the maps
\* file and the insertion of breakpoints)
Scanning == { t \in Tids : pc[t] \in {"scan", "load"} }

\* the supervisor of t calls setup_breakpoint
CallsSetup(t) == SyscallStopTaken(t) /\ has_loading_libraries

\* C25: at most one supervisor is inside the body of setup_breakpoint; a call
\* made while another call is in progress returns without scanning, a call
\* made while none is in progress performs the scan, and the flag is clear
\* when a scan returns.
C25_SingleFlight ==
  [][/\ Cardinality(Scanning') <= 1
     /\ \A t \in Tids :
          /\ CallsSetup(t) => (pc'[t] = "scan" <=> Scanning = {})
          /\ (ScanEnds(t) /\ pc'[t] # pc[t]) => ~doing_setup']_vars

\* an mmap system call of some thread is between its entry and exit stops
MmapInFlight == \E u \in DOMAIN threads : threads[u].syscalls[1]

\* C26: a scan of setup_breakpoint that runs after the mmap hook has raised
\* the pending flag moves every pending path to loaded_libraries and clears
\* the flag, also when the path was already in loaded_libraries: at the end
\* of a scan that no mmap overlaps no path is in both sets and the flag is
\* clear.
C26_ScanClearsPending ==
  [][\A t \in Tids :
       (ScanEnds(t) /\ pc'[t] # pc[t] /\ ~MmapInFlight)
         => /\ loading_libraries' \cap loaded_libraries' = {}
            /\ ~has_loading_libraries']_vars

\* thread t is stopped by the entry breakpoint of a return-tracked function
AtTrackedEntry(t) ==
  /\ (tracee[t].rip - 1) \in DOMAIN functions
  /\ FunctionCallbacks[functions[tracee[t].rip - 1]].result

\* the return-breakpoint stacks of the threads other than t
OtherStacks(th, t) == [u \in (DOMAIN th) \ {t} |-> th[u].stack]

\* C27: on an entry breakpoint of a return-tracked function the supervisor
\* calls the invoke hook, reads the return address at the top of the tracee's
\* stack and pushes it with the function index on the thread's own
\* return-breakpoint stack; then it installs a breakpoint at the return
\* address if and only if the table holds none there; and only then it starts
\* the step-over.  The thread's stack grows by exactly that one entry and no
\* other thread's stack changes.
C27_EntryPushesReturn ==
  [][\A t \in Tids :
       /\ (trace_breakpoint(t) /\ AtTrackedEntry(t)) =>
            LET f == functions[tracee[t].rip - 1]
                ret_addr == Last(tracee[t].stk)
            IN /\ events'[t] = Append(events[t], [kind |-> "invoke", f |-> f])
               /\ threads'[t].stack =
                    Append(threads[t].stack, [breakpoint |-> ret_addr, function_index |-> f])
               /\ OtherStacks(threads', t) = OtherStacks(threads, t)
               /\ loc'[t].raddr = ret_addr
               /\ breakpoints' = breakpoints /\ mem' = mem
               /\ pc'[t] = "addret"
       /\ process_result_addr(t) =>
            LET ret_addr == loc[t].raddr
            IN /\ breakpoints' =
                    IF ret_addr \in DOMAIN breakpoints THEN breakpoints
                    ELSE Put(breakpoints, ret_addr, mem[tracee[t].as][ret_addr])
               /\ ret_addr \notin DOMAIN breakpoints
                    => mem'[tracee[t].as][ret_addr] % 256 = INT3
               /\ threads' = threads /\ events' = events
               /\ pc'[t] = "steplock"
       /\ resume_thread_breakpoint(t) => pc[t] = "steplock"
       /\ (pc[t] = "addret" /\ pc'[t] # "addret") => process_result_addr(t)]_vars

\* two threads are inside malloc at the same time, each with the return
\* address of its own call on its own stack and a breakpoint at both return
\* addresses
C27_Witness ==
  \E t \in DOMAIN threads, u \in DOMAIN threads :
    /\ t # u
    /\ Len(threads[t].stack) = 1 /\ Len(threads[u].stack) = 1
    /\ threads[t].stack[1].breakpoint # threads[u].stack[1].breakpoint
    /\ threads[t].stack[1].breakpoint \in DOMAIN breakpoints
    /\ threads[u].stack[1].breakpoint \in DOMAIN breakpoints
    /\ threads[t].stack[1].breakpoint = Last(tracee[t].stk)
    /\ threads[u].stack[1].breakpoint = Last(tracee[u].stk)

\* thread t is stopped at the return address on top of its own stack
AtOwnReturn(t) ==
  /\ (tracee[t].rip - 1) \notin DOMAIN functions
  /\ threads[t].stack # << >>
  /\ Last(threads[t].stack).breakpoint = tracee[t].rip - 1

\* thread t is stopped at an armed address that is neither a function entry
\* nor the return address on top of its own stack
AtOtherArmed(t) ==
  /\ (tracee[t].rip - 1) \in DOMAIN breakpoints
  /\ (tracee[t].rip - 1) \notin DOMAIN functions
  /\ ~AtOwnReturn(t)

\* the step dispatches a result hook for thread t
ResultHookRuns(t) ==
  /\ Len(events'[t]) = Len(events[t]) + 1
  /\ Last(events'[t]).kind = "result"

AllStacks(th) == [u \in DOMAIN th |-> th[u].stack]

\* C28: a result hook runs for thread t only in the handling of a trap at the
\* return address on top of t's own stack; that handling runs the result hook
\* of the top entry's function, pops exactly that entry and leaves the
\* address in the breakpoint table.  A trap at any other armed address runs
\* no hook and changes no thread's stack.
C28_ReturnPopsOwnTop ==
  [][\A t \in Tids :
       /\ ResultHookRuns(t) => (trace_breakpoint(t) /\ AtOwnReturn(t))
       /\ (trace_breakpoint(t) /\ AtOwnReturn(t)) =>
            /\ events'[t] = Append(events[t],
                 [kind |-> "result", f |-> Last(threads[t].stack).function_index])
            /\ threads'[t].stack = Front(threads[t].stack)
            /\ OtherStacks(threads', t) = OtherStacks(threads, t)
            /\ breakpoints' = breakpoints
            /\ (tracee[t].rip - 1) \in DOMAIN breakpoints
       /\ (trace_breakpoint(t) /\ AtOtherArmed(t)) =>
            /\ events' = events
            /\ AllStacks(threads') = AllStacks(threads)
            /\ breakpoints' = breakpoints
            /\ pc'[t] = "steplock"]_vars

\* a thread whose call of malloc was traced and returned (its result hook has
\* run) is stepped over a return site that its stack does not hold: it has
\* entered malloc again without a trap and has come back to the armed site
C28_Witness ==
  \E t \in DOMAIN threads, f \in FnIdx :
    /\ FunctionCallbacks[f].result
    /\ pc[t] = "steplock"
    /\ loc[t].addr \in (DOMAIN breakpoints) \ (DOMAIN functions)
    /\ threads[t].stack = << >>
    /\ NumKind(HooksOf(t, f), "result") >= 1
    /\ NumKind(HooksOf(t, f), "result") = NumKind(HooksOf(t, f), "invoke")
    /\ calls[t][f] > NumKind(HooksOf(t, f), "invoke")

\* a step-over is in progress: a supervisor is between the lock and the unlock
\* of resume_thread_breakpoint
StepOverInProgress == \E t \in Tids : pc[t] \in {"pause", "pausewait", "disable", "step"}

\* thread o is held by the tracer: it is in a stop whose status has been reaped
\* and its own supervisor is waiting for its next status
HeldStopped(o) ==
  /\ tracee[o].st = "stopped" /\ tracee[o].ws = "none"
  /\ pc[o] = "wait"

InStepOver(t) == pc[t] \in {"steplock", "pause", "pausewait", "disable", "step"}

MmapResultHandled(t) ==
  /\ pc[t] = "syscall"
  /\ pc'[t] = "wait"
  /\ Nr(tracee[t].rip - 1) = "mmap"
  /\ threads[t].syscalls[1]

\* address a lies in the range [r.base, r.base + r.length)
InRange(a, r) == a >= r.base /\ a < r.base + r.length

\* C31: after the mmap result hook has handled a mapping [rax, rax + rsi),
\* every address of the breakpoint table inside that range holds the trap
\* byte, wherever the range lies relative to the breakpoints inserted so far.
C31_RemapRearmed ==
  [][\A t \in Tids :
       MmapResultHandled(t) =>
         \A a \in DOMAIN breakpoints' :
           InRange(a, MmapRange(tracee[t].rip - 1))
             => mem'[tracee[t].as][a] % 256 = INT3]_vars

\* C32: after any sequence of breakpoint insertions the range of the table
\* covers the table: breakpoint_min <= a <= breakpoint_max for every address
\* a of the breakpoint table.
C32_RangeCoversTable ==
  \A a \in DOMAIN breakpoints : breakpoint_min <= a /\ a <= breakpoint_max

\* C33: every on_library_loaded call is followed by a refresh of the
\* symboliser that starts after the call: a call that no refresh has followed
\* yet, one that arrives while a refresh is running included, leaves
\* need_update_dwfl raised, so that the worker refreshes before it resolves
\* the next record or exits.
C33_MarkNotLost == mark_dirty => need_update_dwfl

RunningChildren == { t \in Tids \ {target_pid} : pc[t] \notin {"none", "done"} }

\* the supervisor task of child t is started in this step
ChildStarts(t) == pc[t] = "none" /\ pc'[t] # "none"

\* the supervisor task of child t leaves trace_thread in this step
ChildEnds(t) == pc[t] \notin {"none", "done"} /\ pc'[t] = "done"

\* run() leaves its poll of active_threads and joins the tasks
Joins == pc[target_pid] = "poll" /\ pc'[target_pid] = "done"

\* C35: active_threads is incremented when a child's supervisor task is
\* started and decremented exactly once, when that task's loop ends, and at
\* no other moment, so that it is never less than the number of child
\* supervisor tasks still running; run() joins the tasks only after it has
\* read zero, and when it reads zero no supervisor task is running that could
\* still adopt a thread.
C35_CounterCoversChildren ==
  [][/\ active_threads' >= Cardinality(RunningChildren')
     /\ \A t \in Tids \ {target_pid} :
          /\ ChildStarts(t) => active_threads' = active_threads + 1
          /\ ChildEnds(t) => active_threads' = active_threads - 1
     /\ active_threads' # active_threads
          => \E t \in Tids \ {target_pid} : ChildStarts(t) \/ ChildEnds(t)
     /\ Joins => /\ active_threads = 0
                 /\ RunningChildren = {}
                 /\ \A t \in Tids : ~ENABLED trace_new_thread(t)]_vars

\* run() polls active_threads and reads one: the main thread has exited and
\* the supervisor of the child, started by trace_new_thread, is in its loop
C35_Witness ==
  /\ pc[target_pid] = "poll"
  /\ active_threads = 1
  /\ pc[new_child] = "wait"
  /\ child_tid_list = << new_child >>
  /\ tracee[new_child].st = "running"

\* the step of the supervisor of t is trace_syscall at the entry stop of an
\* mmap: the built-in invoke hook (on_mmap_invoke) runs in it
MmapInvokeHandled(t) ==
  /\ pc[t] = "syscall"
  /\ pc'[t] = "wait"
  /\ Nr(tracee[t].rip - 1) = "mmap"
  /\ ~threads[t].syscalls[1]

\* the part of a path behind its last '/'
Basename(path) ==
  LET slashes == { i \in 1 .. Len(path) : path[i] = "/" }
      last == IF slashes = {} THEN 0 ELSE CHOOSE i \in slashes : \A j \in slashes : j <= i
  IN SubSeq(path, last + 1, Len(path))

\* the name contains ".so" at its very end or immediately followed by '.'
HasSoSuffix(name) ==
  \E i \in 1 .. (Len(name) - 2) :
    /\ SubSeq(name, i, i + 2) = << ".", "s", "o" >>
    /\ (i + 2 = Len(name) \/ name[i + 3] = ".")

\* C36: the mmap invoke hook adds the resolved path to loading_libraries and
\* raises the pending flag exactly when the basename of the path contains
\* ".so" at its end or followed by '.', whatever other occurrences of ".so"
\* the path contains; for every other path the set and the flag stay as they
\* are.
C36_SharedObjectPaths ==
  [][\A t \in Tids :
       MmapInvokeHandled(t) =>
         IF HasSoSuffix(Basename(libPath))
         THEN libPath \in loading_libraries' /\ has_loading_libraries'
         ELSE UNCHANGED << loading_libraries, has_loading_libraries >>]_vars

\* C37: the breakpoint and function tables only grow: no step removes an
\* address from breakpoints or from functions, every address of functions is
\* an address of breakpoints, and the hook index that functions binds to an
\* address is never changed afterwards, by a library scan or by the insertion
\* of a return breakpoint.
C37_TablesOnlyGrow ==
  [][/\ DOMAIN breakpoints \subseteq DOMAIN breakpoints'
     /\ DOMAIN functions \subseteq DOMAIN functions'
     /\ DOMAIN functions' \subseteq DOMAIN breakpoints'
     /\ \A a \in DOMAIN functions : functions'[a] = functions[a]]_vars

\* the run is over: the scan has bound both hooked functions, and return
\* breakpoints have been inserted after it
C37_Witness ==
  /\ Completed
  /\ DOMAIN functions = { SymAddr(i) : i \in FnIdx }
  /\ \E a \in DOMAIN breakpoints : a \notin DOMAIN functions
  /\ \A i \in FnIdx : functions[SymAddr(i)] = i

\* the supervisor of t restores the original byte for a step-over in this step
Disables(t) == pc[t] = "disable" /\ pc'[t] = "step"

CountStored(t) == pc[t] = "count" /\ pc'[t] = "wait"

\* C39: the per-operation invoke and result counters count the hook calls of
\* all traced threads, and no increment is lost when hooks run at the same
\* time on different supervisors: every ++ that a hook completes leaves its
\* counter one above the value the counter had before.
C39_NoIncrementLost ==
  [][\A t \in Tids :
       CountStored(t) =>
         Counter(stat', stat_load[t].kind, stat_load[t].op)
           = Counter(stat, stat_load[t].kind, stat_load[t].op) + 1]_vars


\* C40: in every state in which libraries_mutex is free, has_loading_libraries
\* is true exactly when loading_libraries is non-empty.  The two critical
\* sections of libraries_mutex (on_mmap_invoke, process_maps_entry) are each
\* one step, so libraries_mutex is free in every state.
C40_FlagMirrorsSet == has_loading_libraries <=> (loading_libraries # {})

\* a library was announced by on_mmap_invoke and then erased by the scan
C40_Witness ==
  /\ IsSharedObject(libPath)
  /\ libPath \in loaded_libraries
  /\ loading_libraries = {}
  /\ ~has_loading_libraries
  /\ \E t \in Tids : \E i \in 1..Len(sysEvents[t]) :
       sysEvents[t][i].kind = "invoke" /\ SyscallCallbacks[sysEvents[t][i].slot].builtin

====
